---------------------------- MODULE Spec2Model ----------------------------
(***************************************************************************)
(* A model of ads_aggregator: the CreativeRotator state machine            *)
(* (ads_aggregator/rotator.py), the AdsAggregator fan-out and merge        *)
(* (ads_aggregator/aggregator.py) and the platform clients' fetch          *)
(* operations (ads_aggregator/clients/*.py).                               *)
(*                                                                         *)
(* A Python dict is a TLA+ function whose DOMAIN is the dict's key set, so  *)
(* "field in creative" is "field \in DOMAIN creative".  A Python float is a *)
(* fixed-point integer counting 1/FP units; float('inf') is Inf.            *)
(***************************************************************************)
EXTENDS Integers, Sequences, FiniteSets, TLC

VARIABLES
    \* ---- CreativeRotator (rotator.py) ----
    rstate,             \* "new" | "ready" | "failed": the constructor's outcome
    creatives,          \* self.creatives
    round_robin_index,  \* self._round_robin_index
    rret,               \* the last rotator call: its arguments and what it
                        \* returned or raised
    rrCalls,            \* round-robin calls made since the cursor was put at 0
                        \* with no add/remove since; NoCount when there was one
    \* ---- AdsAggregator.aggregate_data (aggregator.py) ----
    clients,            \* self.clients: each client's behaviour in this call
    parallel,           \* the parallel argument
    dates,              \* <<start_date, end_date, date.today()>>
    apc,                \* where the thread that called aggregate_data is
    all_data,           \* the local all_data
    loopIdx,            \* clients the submit loop / the sequential loop has done
    futures,            \* future_to_client's clients, in submission order
    task,               \* per client: the state of its pool task and future
    calls,              \* per client: the fetch calls made on it, in order
    \* ---- a concrete client (meta_ads_client.py, google_ads_client.py) ----
    cret,               \* what the last client fetch returned or raised
    \* ---- calls that only compute: the metric formulas, get_summary_stats,
    \*      filter_by_platform, filter_by_spend_threshold ----
    data,               \* the caller's list of campaign records
    pret                \* the last such call: its arguments and its result

rvars == <<rstate, creatives, round_robin_index, rret, rrCalls>>
avars == <<clients, parallel, dates, apc, all_data, loopIdx, futures, task,
           calls>>
cvars == <<cret>>
pvars == <<data, pret>>
vars  == <<rvars, avars, cvars, pvars>>

-----------------------------------------------------------------------------
(* Bounds of the model *)

\* Longest creative list handed to the constructor or grown by add_creative.
MaxCreatives == 3

\* Most round-robin calls counted in a row.
MaxCalls == 4

\* Largest iterations argument of simulate_rotation.
MaxIter == 4

\* Longest list of campaign records handed to get_summary_stats and to the
\* filters.
MaxRecords == 3

\* Fixed-point units per 1.0 of a float.
FP == 100 * 100

\* float('inf')
Inf == 1000000000

-----------------------------------------------------------------------------
(* CreativeRotator *)

RequiredFields == <<"ad_id", "ad_name", "impressions", "clicks", "spend">>

Strategies == {"round_robin", "best_ctr", "lowest_cpc"}

\* Strategy names a caller may pass: the enum's values and one that is not.
StrategyArgs == Strategies \cup {"invalid_strategy"}

\* The creative dicts callers hand over.  CreativeA..C are the test suite's
\* (tests/test_rotator.py setUp: ctr 5.0, 2.0, 5.0 and cpc 0.5 each).
\* CreativeD comes without ctr and cpc, as test_add_creative's, and costs less
\* per click than the others (ctr 4.0, cpc 0.25 once computed).  CreativeE
\* and CreativeG have neither impressions nor clicks; CreativeE comes with the
\* cpc 0.0 that the platform clients report for an ad without clicks
\* (clients/base_client.py _calculate_cpc), CreativeG with no metric.
\* CreativeF lacks the required field spend.
CreativeA ==
    [ad_id |-> "ad_1", ad_name |-> "Creative A", impressions |-> 1000,
     clicks |-> 50, spend |-> 25 * FP, ctr |-> 5 * FP, cpc |-> FP \div 2]

CreativeB ==
    [ad_id |-> "ad_2", ad_name |-> "Creative B", impressions |-> 2000,
     clicks |-> 40, spend |-> 20 * FP, ctr |-> 2 * FP, cpc |-> FP \div 2]

CreativeC ==
    [ad_id |-> "ad_3", ad_name |-> "Creative C", impressions |-> 500,
     clicks |-> 25, spend |-> (25 * FP) \div 2, ctr |-> 5 * FP, cpc |-> FP \div 2]

CreativeD ==
    [ad_id |-> "ad_4", ad_name |-> "Creative D", impressions |-> 800,
     clicks |-> 32, spend |-> 8 * FP]

CreativeE ==
    [ad_id |-> "ad_5", ad_name |-> "Creative E", impressions |-> 0,
     clicks |-> 0, spend |-> 0, cpc |-> 0]

CreativeF ==
    [ad_id |-> "ad_6", ad_name |-> "Creative F", impressions |-> 100,
     clicks |-> 10]

CreativeG ==
    [ad_id |-> "ad_7", ad_name |-> "Creative G", impressions |-> 0,
     clicks |-> 0, spend |-> 0]

\* The dict c without the key `field`.
Without(c, field) == [f \in DOMAIN c \ {field} |-> c[f]]

\* Creatives that lack one required field each, and the one of
\* test_missing_required_fields, which has ad_id and ad_name only.
IncompleteCreatives ==
    {Without(CreativeB, "ad_id"), Without(CreativeB, "ad_name"),
     Without(CreativeB, "impressions"), Without(CreativeB, "clicks"),
     CreativeF, [ad_id |-> "test", ad_name |-> "Test"]}

CompleteCreatives == {CreativeA, CreativeB, CreativeC, CreativeD, CreativeE}

\* What callers pass to the constructor and to add_creative.
CreativePool == CompleteCreatives \cup IncompleteCreatives

\* The creatives of the rotators whose choices are examined one by one.
ChoicePool == CompleteCreatives \cup {CreativeG}

AdIdArgs == {c.ad_id : c \in CompleteCreatives} \cup {"nonexistent"}

SeqsUpTo(S, n) == UNION {[1..k -> S] : k \in 0..n}

NoCount == 0 - 1

\* A validation that looks at the creatives' fields only.
ValidateFieldsOnly(cs) ==
    \A i \in 1..Len(cs) : \A j \in 1..Len(RequiredFields) :
        RequiredFields[j] \in DOMAIN cs[i]

\* _validate_creatives: TRUE when it returns, FALSE when it raises ValueError.
ValidateCreatives(cs) ==
    /\ cs # <<>>
    /\ \A i \in 1..Len(cs) : \A j \in 1..Len(RequiredFields) :
           RequiredFields[j] \in DOMAIN cs[i]

\* The required-field loop of add_creative.
ValidateCreative(c) ==
    \A j \in 1..Len(RequiredFields) : RequiredFields[j] \in DOMAIN c

\* (clicks / impressions * 100) if impressions > 0 else 0.0
RotatorCtr(c) ==
    IF c.impressions > 0 THEN (c.clicks * 100 * FP) \div c.impressions ELSE 0

\* A cost per click that is 0.0 for a creative nobody clicked.
RotatorCpcSafe(c) ==
    IF c.clicks > 0 THEN c.spend \div c.clicks ELSE 0

\* (spend / clicks) if clicks > 0 else float('inf')
RotatorCpc(c) ==
    IF c.clicks > 0 THEN c.spend \div c.clicks ELSE Inf

\* A backfill that computes both metrics anew whatever the creative has.
RecomputeMetricsOf(c) ==
    [f \in DOMAIN c \cup {"ctr", "cpc"} |->
        IF f = "ctr" THEN RotatorCtr(c)
        ELSE IF f = "cpc" THEN RotatorCpc(c) ELSE c[f]]

\* One creative of _ensure_metrics: each metric is set only if its key is absent.
EnsureMetricsOf(c) ==
    LET c1 == IF "ctr" \in DOMAIN c THEN c ELSE c @@ ("ctr" :> RotatorCtr(c))
    IN  IF "cpc" \in DOMAIN c1 THEN c1 ELSE c1 @@ ("cpc" :> RotatorCpc(c1))

EnsureMetrics(cs) == [i \in 1..Len(cs) |-> EnsureMetricsOf(cs[i])]

\* A max that keeps the last of the elements holding the largest key.
LastMaxCtr(s) ==
    s[CHOOSE i \in 1..Len(s) :
        /\ \A j \in 1..Len(s) : s[j].ctr <= s[i].ctr
        /\ \A j \in (i + 1)..Len(s) : s[j].ctr < s[i].ctr]

\* max(valid_creatives, key=lambda x: x['ctr']): Python's max returns the
\* first element holding the largest key.
FirstMaxCtr(s) ==
    s[CHOOSE i \in 1..Len(s) :
        /\ \A j \in 1..Len(s) : s[j].ctr <= s[i].ctr
        /\ \A j \in 1..(i - 1) : s[j].ctr < s[i].ctr]

\* A choice of the first element holding the largest cpc.
FirstMaxCpc(s) ==
    s[CHOOSE i \in 1..Len(s) :
        /\ \A j \in 1..Len(s) : s[j].cpc <= s[i].cpc
        /\ \A j \in 1..(i - 1) : s[j].cpc < s[i].cpc]

\* min(valid_creatives, key=lambda x: x['cpc']): the first element holding
\* the smallest key.
FirstMinCpc(s) ==
    s[CHOOSE i \in 1..Len(s) :
        /\ \A j \in 1..Len(s) : s[j].cpc >= s[i].cpc
        /\ \A j \in 1..(i - 1) : s[j].cpc > s[i].cpc]

HasImpressions(c) == c.impressions > 0

HasClicks(c) == c.clicks > 0

Raised(op, err) == [op |-> op, kind |-> err]

Returned(op, v) == [op |-> op, kind |-> "ok", val |-> v]

\* A cursor that is advanced without wrapping around.
AdvanceIndexNoWrap(idx, n) == idx + 1

\* The next cursor of _round_robin_choice.
AdvanceIndex(idx, n) == (idx + 1) % n

\* A conversion that takes any unknown name for the default strategy.
RotationStrategyDefault(strategy) ==
    IF strategy \in Strategies THEN strategy ELSE "round_robin"

\* RotationStrategy(strategy): the enum member of that value, or the
\* ValueError the Enum lookup raises for a value that no member has.
RotationStrategy(strategy) ==
    IF strategy \in Strategies THEN strategy ELSE "ValueError"

\* A choice that hands out the stored dict itself.
CopyShared(i) == i

\* creative.copy() of the stored dict at position i.  The result names the
\* position of self.creatives whose dict object the returned object is:
\* none (0), a copy being a new dict with the same items.
Copy(i) == 0

\* Which stored object the dict returned for the chosen creative c is.
AliasOf(cs, c) == Copy(CHOOSE j \in 1..Len(cs) : cs[j] = c)

\* The creatives a choose_next(strategy) call may return: one for every
\* strategy but the random.choice fallbacks.  The cursor is a 0-based index.
Choices(cs, idx, strategy) ==
    CASE strategy = "round_robin" -> {cs[idx + 1]}
      [] strategy = "best_ctr" ->
            LET valid == SelectSeq(cs, HasImpressions)
            IN  IF valid = <<>> THEN {cs[i] : i \in 1..Len(cs)}
                ELSE {FirstMaxCtr(valid)}
      [] strategy = "lowest_cpc" ->
            LET valid == SelectSeq(cs, HasClicks)
            IN  IF valid = <<>> THEN {cs[i] : i \in 1..Len(cs)}
                ELSE {FirstMinCpc(valid)}

\* A cursor that every choice moves on, whatever the strategy.
IndexAfterAnyChoice(cs, idx, strategy) == AdvanceIndex(idx, Len(cs))

\* The cursor after a choose_next(strategy) call that returned.
IndexAfter(cs, idx, strategy) ==
    IF strategy = "round_robin" THEN AdvanceIndex(idx, Len(cs)) ELSE idx

\* A removal that always puts the cursor back to 0.
IndexAfterRemoveAlways(idx, kept) == 0

\* A removal that leaves the cursor where it was.
IndexAfterRemoveKept(idx, kept) == idx

\* A removal that moves the cursor down with the creatives behind the gap.
IndexAfterRemoveShifted(idx, kept) ==
    IF idx >= Len(kept) THEN 0 ELSE IF idx > 0 THEN idx - 1 ELSE idx

\* The cursor remove_creative leaves, given the shortened list.
IndexAfterRemove(idx, kept) ==
    IF idx >= Len(kept) THEN 0 ELSE idx

\* The list without the first creative of that ad_id, if it has one.
KeptWithoutFirst(cs, ad_id) ==
    LET hits == {i \in 1..Len(cs) : cs[i].ad_id = ad_id}
    IN  IF hits = {} THEN cs
        ELSE LET first == CHOOSE i \in hits : \A j \in hits : i <= j
             IN  SubSeq(cs, 1, first - 1) \o SubSeq(cs, first + 1, Len(cs))

\* [c for c in self.creatives if c['ad_id'] != ad_id]
Kept(cs, ad_id) == SelectSeq(cs, LAMBDA c : c.ad_id # ad_id)

\* A list that takes the new creative at its front.
InsertFirst(cs, c) == <<c>> \o cs

\* self.creatives.append(creative)
AppendCreative(cs, c) == Append(cs, c)

\* The round-robin call count after one more round-robin call.
Counted(n) == IF n = NoCount THEN NoCount ELSE n + 1

RotatorInit ==
    /\ rstate = "new"
    /\ creatives = <<>>
    /\ round_robin_index = 0
    /\ rret = Raised("none", "none")
    /\ rrCalls = 0

\* Dicts that got their metrics as long as no incomplete dict came before
\* them: a validation that backfills as it goes.
BackfilledUntilInvalid(cs) ==
    [i \in 1..Len(cs) |->
        IF \A j \in 1..i : ValidateCreative(cs[j])
        THEN EnsureMetricsOf(cs[i]) ELSE cs[i]]

\* The caller's dicts when a validation has raised: _validate_creatives and
\* the required-field loop of add_creative only read them, and nothing that
\* writes has run yet.
AsSupplied(cs) == cs

\* CreativeRotator(input) for an input out of `inputs`.  `creatives` is the
\* list the caller passed, also when the constructor raises.
ConstructOf(inputs) ==
    /\ rstate = "new"
    /\ \E input \in inputs :
         IF ValidateCreatives(input)
         THEN /\ rstate' = "ready"
              /\ creatives' = EnsureMetrics(input)
              /\ rret' = Returned("init", Len(input))
         ELSE /\ rstate' = "failed"
              /\ creatives' = AsSupplied(input)
              /\ rret' = [op |-> "init", kind |-> "ValueError",
                          input |-> input]
    /\ round_robin_index' = 0
    /\ rrCalls' = 0
    /\ UNCHANGED <<avars, cvars, pvars>>

Construct == ConstructOf(SeqsUpTo(CreativePool, MaxCreatives))

\* choose_next(strategy).  A cursor at or past the end of the list makes
\* self.creatives[self._round_robin_index] raise IndexError.
ChooseNext ==
    /\ rstate = "ready"
    /\ \E strategy \in StrategyArgs :
         LET strategy_enum == RotationStrategy(strategy)
         IN  IF creatives = <<>> \/ strategy_enum = "ValueError"
             THEN /\ rret' = [op |-> "choose_next", kind |-> "ValueError",
                              strategy |-> strategy]
                  /\ UNCHANGED <<round_robin_index, rrCalls>>
             ELSE IF /\ strategy_enum = "round_robin"
                     /\ round_robin_index >= Len(creatives)
             THEN /\ rret' = [op |-> "choose_next", kind |-> "IndexError",
                              strategy |-> strategy]
                  /\ UNCHANGED <<round_robin_index, rrCalls>>
             ELSE /\ strategy_enum = "round_robin" => rrCalls < MaxCalls
                  /\ \E c \in Choices(creatives, round_robin_index,
                                      strategy_enum) :
                        rret' = [op |-> "choose_next", kind |-> "ok",
                                 strategy |-> strategy, val |-> c,
                                 alias |-> AliasOf(creatives, c)]
                  /\ round_robin_index' =
                        IndexAfter(creatives, round_robin_index, strategy_enum)
                  /\ rrCalls' = IF strategy_enum = "round_robin"
                                THEN Counted(rrCalls) ELSE rrCalls
    /\ UNCHANGED <<rstate, creatives>>
    /\ UNCHANGED <<avars, cvars, pvars>>

\* reset_round_robin()
ResetRoundRobin ==
    /\ rstate = "ready"
    /\ round_robin_index' = 0
    /\ rrCalls' = 0
    /\ rret' = Returned("reset_round_robin", 0)
    /\ UNCHANGED <<rstate, creatives>>
    /\ UNCHANGED <<avars, cvars, pvars>>

\* add_creative(creative) for a creative out of `pool`.  `left` is the
\* caller's dict after a call that raised.
AddCreativeOf(pool) ==
    /\ rstate = "ready"
    /\ Len(creatives) < MaxCreatives
    /\ \E c \in pool :
         IF ValidateCreative(c)
         THEN /\ creatives' = AppendCreative(creatives, EnsureMetricsOf(c))
              /\ rret' = [op |-> "add_creative", kind |-> "ok",
                          val |-> c.ad_id, creative |-> c]
              /\ rrCalls' = NoCount
         ELSE /\ rret' = [op |-> "add_creative", kind |-> "ValueError",
                          creative |-> c, left |-> AsSupplied(<<c>>)[1]]
              /\ UNCHANGED <<creatives, rrCalls>>
    /\ UNCHANGED <<rstate, round_robin_index>>
    /\ UNCHANGED <<avars, cvars, pvars>>

AddCreative == AddCreativeOf(CreativePool)

\* remove_creative(ad_id).  The outcome keeps the indices the ad_id was found
\* at and the cursor the call started with.
RemoveCreative ==
    /\ rstate = "ready"
    /\ \E ad_id \in AdIdArgs :
         LET initial_length == Len(creatives)
             kept == Kept(creatives, ad_id)
             at == {i \in 0..(initial_length - 1) :
                        creatives[i + 1].ad_id = ad_id}
         IN  /\ creatives' = kept
             /\ IF Len(kept) < initial_length
                THEN /\ round_robin_index' =
                            IndexAfterRemove(round_robin_index, kept)
                     /\ rret' = [op |-> "remove_creative", kind |-> "ok",
                                 val |-> TRUE, ad_id |-> ad_id,
                                 initial_length |-> initial_length,
                                 at |-> at, index |-> round_robin_index]
                     /\ rrCalls' = NoCount
                ELSE /\ rret' = [op |-> "remove_creative", kind |-> "ok",
                                 val |-> FALSE, ad_id |-> ad_id,
                                 initial_length |-> initial_length,
                                 at |-> at, index |-> round_robin_index]
                     /\ UNCHANGED <<round_robin_index, rrCalls>>
    /\ UNCHANGED rstate
    /\ UNCHANGED <<avars, cvars, pvars>>

\* The for loop of simulate_rotation: `todo` more choose_next(strategy) calls
\* from cursor idx, with the entries `acc` recorded so far.  The set of
\* <<final cursor, rotation_sequence>> pairs the loop may end with.
RECURSIVE SimLoop(_, _, _, _, _)
SimLoop(cs, idx, strategy, todo, acc) ==
    IF todo <= 0 THEN {<<idx, acc>>}
    ELSE UNION {SimLoop(cs, IndexAfter(cs, idx, strategy), strategy, todo - 1,
                        Append(acc, [iteration |-> Len(acc) + 1,
                                     chosen_creative |-> c])) :
                   c \in Choices(cs, idx, strategy)}

\* A simulation that starts from wherever the cursor is.
SimStartKept(idx, strategy) == idx

\* The cursor simulate_rotation starts its loop from.
SimStart(idx, strategy) == IF strategy = "round_robin" THEN 0 ELSE idx

\* A simulation that looks at the collection and the strategy before its
\* loop, whatever the number of iterations.
RaisesUpFront(iterations, cs, strategy_enum) ==
    cs = <<>> \/ strategy_enum = "ValueError"

\* The loop of simulate_rotation raises: range(iterations) is not empty and
\* its first choose_next call finds no creatives or no such strategy.
FirstCallRaises(iterations, cs, strategy_enum) ==
    /\ iterations >= 1
    /\ (cs = <<>> \/ strategy_enum = "ValueError")

\* simulate_rotation(iterations, strategy).  The reset compares the strategy
\* argument itself; the first choose_next call raises what it raises alone.
SimulateRotation ==
    /\ rstate = "ready"
    /\ \E iterations \in (0 - 1)..MaxIter, strategy \in StrategyArgs :
         LET start == SimStart(round_robin_index, strategy)
             count == IF strategy = "round_robin" THEN 0 ELSE rrCalls
             strategy_enum == RotationStrategy(strategy)
         IN  IF FirstCallRaises(iterations, creatives, strategy_enum)
             THEN /\ rret' = [op |-> "simulate_rotation",
                              kind |-> "ValueError", strategy |-> strategy,
                              n |-> iterations]
                  /\ round_robin_index' = start
                  /\ rrCalls' = count
             ELSE \E r \in SimLoop(creatives, start, strategy_enum,
                                   iterations, <<>>) :
                  /\ rret' = [op |-> "simulate_rotation", kind |-> "ok",
                              strategy |-> strategy, n |-> iterations,
                              val |-> r[2],
                              alias |-> [k \in 1..Len(r[2]) |->
                                  AliasOf(creatives, r[2][k].chosen_creative)]]
                  /\ round_robin_index' = r[1]
                  /\ rrCalls' =
                        IF strategy = "round_robin" /\ iterations >= 1
                        THEN iterations ELSE count
    /\ UNCHANGED <<rstate, creatives>>
    /\ UNCHANGED <<avars, cvars, pvars>>

RotatorNext ==
    \/ Construct
    \/ ChooseNext
    \/ ResetRoundRobin
    \/ AddCreative
    \/ RemoveCreative
    \/ SimulateRotation

\* The state CreativeRotator(input) leaves for a valid input out of `inputs`.
ConstructedFrom(inputs) ==
    /\ rstate = "ready"
    /\ creatives \in {EnsureMetrics(input) :
                         input \in {i \in inputs : ValidateCreatives(i)}}
    /\ round_robin_index = 0
    /\ rret = Returned("init", Len(creatives))
    /\ rrCalls = 0

\* A rotator over any creatives of ChoicePool, asked for one creative after
\* another.
ChoiceInit == ConstructedFrom(SeqsUpTo(ChoicePool, MaxCreatives))

ChoiceNext ==
    \/ ChooseNext
    \/ ResetRoundRobin

-----------------------------------------------------------------------------
(* The code that uses a rotator.  __init__ binds self.creatives to the list  *)
(* it is given, and neither __init__ nor add_creative copies a dict: as long *)
(* as remove_creative has not rebound self.creatives, the caller's list is   *)
(* the rotator's list, and the caller's dicts are the rotator's dicts.  What *)
(* choose_next and simulate_rotation return are the dicts that Copy made.    *)

\* The lists these callers construct their rotator from.
CallerInputs ==
    { <<CreativeA, CreativeB, CreativeC>>, <<CreativeE, CreativeG>>,
      <<CreativeD>> }

\* The caller's write to a dict it holds: d["impressions"] = 0.
CallerEdit(d) == [d EXCEPT !.impressions = 0]

\* A rotator in the hands of a caller that kept the list it constructed the
\* rotator from and never calls remove_creative.
CallerInit == ConstructedFrom(CallerInputs)

\* del lst[k:] on the list the caller passed to the constructor.
CallerMutatesList ==
    /\ rstate = "ready"
    /\ creatives # <<>>
    /\ \E k \in 0..(Len(creatives) - 1) :
         creatives' = SubSeq(creatives, 1, k)
    /\ UNCHANGED <<rstate, round_robin_index, rret, rrCalls>>
    /\ UNCHANGED <<avars, cvars, pvars>>

\* A write to one of the dicts of the list the caller passed.
CallerMutatesRecord ==
    /\ rstate = "ready"
    /\ \E i \in 1..Len(creatives) :
         creatives' = [creatives EXCEPT ![i] = CallerEdit(@)]
    /\ UNCHANGED <<rstate, round_robin_index, rret, rrCalls>>
    /\ UNCHANGED <<avars, cvars, pvars>>

\* The stored dicts after a write to the object that `alias` names.
StoredAfterEdit(cs, alias) ==
    IF alias \in 1..Len(cs) THEN [cs EXCEPT ![alias] = CallerEdit(@)] ELSE cs

\* A write to the dict the last choose_next call returned.
CallerMutatesChoice ==
    /\ rstate = "ready"
    /\ rret.op = "choose_next" /\ rret.kind = "ok"
    /\ rret' = [rret EXCEPT !.val = CallerEdit(@)]
    /\ creatives' = StoredAfterEdit(creatives, rret.alias)
    /\ UNCHANGED <<rstate, round_robin_index, rrCalls>>
    /\ UNCHANGED <<avars, cvars, pvars>>

\* A write to a chosen_creative of what the last simulate_rotation call
\* returned.
CallerMutatesSimulated ==
    /\ rstate = "ready"
    /\ rret.op = "simulate_rotation" /\ rret.kind = "ok"
    /\ \E k \in 1..Len(rret.val) :
         /\ rret' = [rret EXCEPT !.val[k].chosen_creative = CallerEdit(@)]
         /\ creatives' = StoredAfterEdit(creatives, rret.alias[k])
    /\ UNCHANGED <<rstate, round_robin_index, rrCalls>>
    /\ UNCHANGED <<avars, cvars, pvars>>

CallerNext ==
    \/ ChooseNext
    \/ SimulateRotation
    \/ CallerMutatesList
    \/ CallerMutatesRecord
    \/ CallerMutatesChoice
    \/ CallerMutatesSimulated

-----------------------------------------------------------------------------
(* Exceptions (exceptions.py) *)

AdsAPIErrors == {"AdsAPIError", "AuthenticationError", "RateLimitError",
                 "DataNotFoundError", "InvalidTokenError"}

\* Every error class of the model derives from Exception.
Exceptions == AdsAPIErrors \cup {"ValueError"}

\* isinstance(e, AuthenticationError): the class or its subclass.
IsAuthenticationError(e) == e \in {"AuthenticationError", "InvalidTokenError"}

-----------------------------------------------------------------------------
(* BaseAdsClient._validate_date_range.  A date is a day number. *)

Dates == {1, 2, 3}

\* The range is malformed: start > end, or start in the future.
Malformed(d) == d[1] > d[2] \/ d[1] > d[3]

\* A validation that only compares start with end.
ValidateDateRangeOrderOnly(start, end, today) ==
    IF start > end THEN "ValueError" ELSE "none"

\* "none" when it returns, else the class of the error it raises.
ValidateDateRange(start, end, today) ==
    IF start > end THEN "ValueError"
    ELSE IF start > today THEN "ValueError"
    ELSE "none"

-----------------------------------------------------------------------------
(* AdsAggregator.aggregate_data *)

\* ThreadPoolExecutor(max_workers=min(len(self.clients), 4))
PoolLimit == 4

\* A pool with one worker per client.
MaxWorkersUnbounded(n) == n

MaxWorkers(n) == IF n < PoolLimit THEN n ELSE PoolLimit

\* Most clients of an aggregator, with any mix of client behaviours.
MaxClients == 3

\* Most clients of an aggregator in the worker-pool scenarios.
PoolClients == 5

Campaign(id, name, impressions, clicks, spend) ==
    [campaign_id |-> id, name |-> name, impressions |-> impressions,
     clicks |-> clicks, spend |-> spend]

Ad(id, name, impressions, clicks, spend) ==
    [ad_id |-> id, ad_name |-> name, impressions |-> impressions,
     clicks |-> clicks, spend |-> spend]

WithMetrics(ad, ctr, cpc) == ad @@ ("ctr" :> ctr) @@ ("cpc" :> cpc)

\* What the aggregator can see of a client: its platform_name, whether its
\* fetches validate the date range first (the concrete clients do, the test
\* suite's MockAdsClient does not), the error its fetch_campaigns raises or
\* the campaigns it returns, and per campaign the error its fetch_ads raises
\* or the ads it returns.
MetaClient ==
    [platform_name |-> "meta", validates |-> TRUE, error |-> "none",
     campaigns |-> << Campaign("meta_campaign_1", "Meta Campaign 1", 1000, 50, 25 * FP),
                      Campaign("meta_campaign_2", "Meta Campaign 2", 2000, 0, 20 * FP) >>,
     ads_error |-> << "none", "none" >>,
     ads |-> << << WithMetrics(Ad("meta_campaign_1_ad_1", "Meta Creative 1", 500, 25, (25 * FP) \div 2),
                               5 * FP, FP \div 2) >>,
                << >> >>]

\* MetaClient with a fetch_ads that fails for its first campaign.
MetaFlakyClient ==
    [MetaClient EXCEPT !.ads_error = << "AuthenticationError", "none" >>,
                       !.ads = << << >>,
                                  << WithMetrics(Ad("meta_campaign_2_ad_1", "Meta Creative 1", 300, 0, 5 * FP),
                                                 0, 0) >> >>]

\* A client whose ads come without ctr and cpc.
GoogleClient ==
    [platform_name |-> "google", validates |-> TRUE, error |-> "none",
     campaigns |-> << Campaign("google_campaign_1", "Google Campaign 1", 1500, 75, 50 * FP) >>,
     ads_error |-> << "none" >>,
     ads |-> << << Ad("google_campaign_1_ad_1", "Google Ad 1", 400, 15, 10 * FP),
                   Ad("google_campaign_1_ad_2", "Google Ad 2", 4000, 0, 100 * FP) >> >>]

\* MockAdsClient("failing", should_fail=True) of tests/test_aggregator.py.
FailingClient ==
    [platform_name |-> "failing", validates |-> FALSE, error |-> "AdsAPIError",
     campaigns |-> << >>, ads_error |-> << >>, ads |-> << >>]

\* MockAdsClient("working") of tests/test_aggregator.py.
WorkingClient ==
    [platform_name |-> "working", validates |-> FALSE, error |-> "none",
     campaigns |-> << Campaign("working_camp_1", "working Campaign 1", 1000, 50, 25 * FP) >>,
     ads_error |-> << "none" >>,
     ads |-> << << WithMetrics(Ad("working_camp_1_ad_1", "Test Ad 1", 500, 25, (25 * FP) \div 2),
                               5 * FP, FP \div 2),
                   WithMetrics(Ad("working_camp_1_ad_2", "Test Ad 2", 500, 25, (25 * FP) \div 2),
                               5 * FP, FP \div 2) >> >>]

ClientPool == {MetaClient, MetaFlakyClient, GoogleClient, FailingClient,
               WorkingClient}

\* <<start_date, end_date, today>>: a valid range, start > end, start > today.
DateCases == { <<1, 2, 2>>, <<2, 1, 2>>, <<3, 3, 2>> }

\* client.fetch_campaigns(start_date, end_date): [error, campaigns].
FetchCampaigns(client, d) ==
    LET invalid == IF client.validates
                   THEN ValidateDateRange(d[1], d[2], d[3]) ELSE "none"
    IN  IF invalid # "none" THEN [error |-> invalid, campaigns |-> << >>]
        ELSE IF client.error # "none"
             THEN [error |-> client.error, campaigns |-> << >>]
             ELSE [error |-> "none", campaigns |-> client.campaigns]

\* client.fetch_ads(campaign_id, start_date, end_date) for the client's k-th
\* campaign: [error, ads].
FetchAds(client, k, d) ==
    LET invalid == IF client.validates
                   THEN ValidateDateRange(d[1], d[2], d[3]) ELSE "none"
    IN  IF invalid # "none" THEN [error |-> invalid, ads |-> << >>]
        ELSE IF client.ads_error[k] # "none"
             THEN [error |-> client.ads_error[k], ads |-> << >>]
             ELSE [error |-> "none", ads |-> client.ads[k]]

\* No handler around fetch_ads.
CaughtNothing(e) == FALSE

\* "except Exception as e" around fetch_ads in _fetch_client_data.
CaughtPerCampaign(e) == e \in Exceptions

\* "except AdsAPIError" in place of "except Exception".
CaughtAdsAPIErrorOnly(e) == e \in AdsAPIErrors

\* "except ValueError" in place of "except Exception".
CaughtValueErrorOnly(e) == e = "ValueError"

\* "except Exception as e" around each client in aggregate_data (both branches).
CaughtPerClient(e) == e \in Exceptions

\* round(num / den, 2) in fixed point: Python rounds halves to even.
Round2(num, den) ==
    LET q == (num * 100) \div den
        r == (num * 100) % den
    IN  (IF 2 * r > den \/ (2 * r = den /\ q % 2 = 1) THEN q + 1 ELSE q)
        * (FP \div 100)

\* A click-through rate that is not rounded.
CalculateCtrUnrounded(impressions, clicks) ==
    IF impressions = 0 THEN 0 ELSE (clicks * 100 * FP) \div impressions

\* BaseAdsClient._calculate_ctr
CalculateCtr(impressions, clicks) ==
    IF impressions = 0 THEN 0 ELSE Round2(clicks * 100, impressions)

\* BaseAdsClient._calculate_cpc; spend is in fixed point already.
CalculateCpc(spend, clicks) ==
    IF clicks = 0 THEN 0 ELSE Round2(spend, clicks * FP)

\* The new records put in front of all_data.
ExtendFront(all, platform_data) == platform_data \o all

\* all_data = platform_data
ExtendReplace(all, platform_data) == platform_data

\* The first new record put in front of all_data and the others behind it.
ExtendAround(all, platform_data) ==
    IF platform_data = << >> THEN all
    ELSE << Head(platform_data) >> \o all \o Tail(platform_data)

\* all_data.extend(platform_data)
Extend(all, platform_data) == all \o platform_data

\* Ads that get the metrics they lack from the clients' helpers.
AdsWithMetrics(ads) ==
    [j \in 1..Len(ads) |->
        LET ad == ads[j]
            ad1 == IF "ctr" \in DOMAIN ad THEN ad
                   ELSE ad @@ ("ctr" :> CalculateCtr(ad.impressions, ad.clicks))
        IN  IF "cpc" \in DOMAIN ad1 THEN ad1
            ELSE ad1 @@ ("cpc" :> CalculateCpc(ad.spend, ad.clicks))]

\* "ads": ads, the list fetch_ads returned, as it is.
FormattedAds(ads) == ads

\* The new record put in front of platform_data.
PrependRecord(platform_data, formatted_campaign) ==
    << formatted_campaign >> \o platform_data

\* platform_data.append(formatted_campaign)
AppendRecord(platform_data, formatted_campaign) ==
    Append(platform_data, formatted_campaign)

\* A record that is labelled with the campaign's name instead of the
\* client's platform and carries the spend rounded down to whole units.
FormattedFromCampaign(client, campaign, ads) ==
    [platform |-> campaign.name,
     campaign_id |-> campaign.campaign_id,
     name |-> campaign.name, impressions |-> campaign.impressions,
     clicks |-> campaign.clicks,
     spend |-> (campaign.spend \div FP) * FP, ads |-> ads]

\* formatted_campaign
Formatted(client, campaign, ads) ==
    [platform |-> client.platform_name, campaign_id |-> campaign.campaign_id,
     name |-> campaign.name, impressions |-> campaign.impressions,
     clicks |-> campaign.clicks, spend |-> campaign.spend, ads |-> ads]

\* The record _fetch_client_data appends for one campaign, given what
\* fetch_ads did: the error path keeps the campaign with no ads.
FormatCampaign(client, campaign, fetched) ==
    IF fetched.error = "none"
    THEN Formatted(client, campaign, FormattedAds(fetched.ads))
    ELSE Formatted(client, campaign, << >>)

\* A loop body that calls fetch_ads a second time when the first call failed.
AdsCallsRetried(campaign_id, fetched) ==
    IF fetched.error = "none" THEN << <<"fetch_ads", campaign_id>> >>
    ELSE << <<"fetch_ads", campaign_id>>, <<"fetch_ads", campaign_id>> >>

\* The fetch_ads calls the loop body makes for one campaign: the one call in
\* the try block, whatever it did.
AdsCalls(campaign_id, fetched) == << <<"fetch_ads", campaign_id>> >>

\* The "for campaign in campaigns" loop of _fetch_client_data from the k-th
\* campaign on: [error, data, calls].
RECURSIVE CampaignLoop(_, _, _, _, _, _)
CampaignLoop(client, d, campaigns, k, platform_data, log) ==
    IF k > Len(campaigns)
    THEN [error |-> "none", data |-> platform_data, calls |-> log]
    ELSE LET fetched == FetchAds(client, k, d)
             log1 == log \o AdsCalls(campaigns[k].campaign_id, fetched)
         IN  IF fetched.error # "none" /\ ~CaughtPerCampaign(fetched.error)
             THEN [error |-> fetched.error, data |-> << >>, calls |-> log1]
             ELSE CampaignLoop(client, d, campaigns, k + 1,
                               AppendRecord(platform_data,
                                  FormatCampaign(client, campaigns[k], fetched)),
                               log1)

\* _fetch_client_data(client, start_date, end_date): [error, data, calls].
FetchClientData(client, d) ==
    LET fetched == FetchCampaigns(client, d)
        log == << <<"fetch_campaigns">> >>
    IN  IF fetched.error # "none"
        THEN [error |-> fetched.error, data |-> << >>, calls |-> log]
        ELSE CampaignLoop(client, d, fetched.campaigns, 1, << >>, log)

NumClients == Len(clients)

Running == {c \in 1..NumClients : task[c].st = "running"}

NoTask == [st |-> "none", error |-> "none", data |-> << >>]

\* The parallel branch is taken: "parallel and len(self.clients) > 1".
UsePool(par, n) == par /\ n > 1

\* The state before aggregate_data is called on an aggregator with clients cs.
AggStart(cs, par, d) ==
    /\ clients = cs
    /\ parallel = par
    /\ dates = d
    /\ apc = "idle"
    /\ all_data = << >>
    /\ loopIdx = 0
    /\ futures = << >>
    /\ task = [c \in 1..Len(cs) |-> NoTask]
    /\ calls = [c \in 1..Len(cs) |-> << >>]

AggInit ==
    \E cs \in SeqsUpTo(ClientPool, MaxClients), par \in BOOLEAN, d \in DateCases :
        AggStart(cs, par, d)

\* The worker-pool scenarios: more clients than workers, drawn from two kinds.
PoolInit ==
    \E n \in 0..PoolClients, bad \in {0, 2} :
        AggStart([c \in 1..n |-> IF c = bad THEN FailingClient ELSE GoogleClient],
                 TRUE, <<1, 2, 2>>)

\* An aggregate_data that rejects no clients and malformed ranges up front.
CallValidating ==
    /\ apc = "idle"
    /\ all_data' = << >>
    /\ apc' = IF NumClients = 0 \/ Malformed(dates) THEN "raised"
              ELSE IF UsePool(parallel, NumClients) THEN "submit" ELSE "seq"
    /\ UNCHANGED <<clients, parallel, dates, loopIdx, futures, task, calls>>
    /\ UNCHANGED <<rvars, cvars, pvars>>

\* aggregate_data is called: all_data = [] and the branch is chosen.
Call ==
    /\ apc = "idle"
    /\ all_data' = << >>
    /\ apc' = IF UsePool(parallel, NumClients) THEN "submit" ELSE "seq"
    /\ UNCHANGED <<clients, parallel, dates, loopIdx, futures, task, calls>>
    /\ UNCHANGED <<rvars, cvars, pvars>>

\* One executor.submit(self._fetch_client_data, client, ...) of the dict
\* comprehension; after the last one the as_completed loop starts.
Submit ==
    /\ apc = "submit"
    /\ loopIdx < NumClients
    /\ LET c == loopIdx + 1
       IN  /\ task' = [task EXCEPT ![c].st = "queued"]
           /\ futures' = Append(futures, c)
           /\ loopIdx' = c
           /\ apc' = IF c = NumClients THEN "collect" ELSE "submit"
    /\ UNCHANGED <<clients, parallel, dates, all_data, calls>>
    /\ UNCHANGED <<rvars, cvars, pvars>>

\* A worker thread takes the oldest queued work item; the pool has at most
\* MaxWorkers(len(clients)) threads.
TaskStart ==
    /\ \E c \in 1..NumClients :
         /\ task[c].st = "queued"
         /\ \A b \in 1..(c - 1) : task[b].st # "queued"
         /\ Cardinality(Running) < MaxWorkers(NumClients)
         /\ task' = [task EXCEPT ![c].st = "running"]
    /\ UNCHANGED <<clients, parallel, dates, apc, all_data, loopIdx, futures, calls>>
    /\ UNCHANGED <<rvars, cvars, pvars>>

\* The work item runs _fetch_client_data to its end and sets the future's
\* result or exception.  It touches no state but its own.
TaskFinish ==
    /\ \E c \in 1..NumClients :
         /\ task[c].st = "running"
         /\ LET r == FetchClientData(clients[c], dates)
            IN  /\ task' = [task EXCEPT ![c] =
                              [st |-> "done", error |-> r.error, data |-> r.data]]
                /\ calls' = [calls EXCEPT ![c] = calls[c] \o r.calls]
    /\ UNCHANGED <<clients, parallel, dates, apc, all_data, loopIdx, futures>>
    /\ UNCHANGED <<rvars, cvars, pvars>>

\* One iteration of "for future in as_completed(future_to_client)": any
\* completed future not yet yielded; future.result() returns or raises.
Collect ==
    /\ apc = "collect"
    /\ \E c \in 1..NumClients :
         /\ task[c].st = "done"
         /\ task' = [task EXCEPT ![c].st = "yielded"]
         /\ IF task[c].error = "none"
            THEN /\ all_data' = Extend(all_data, task[c].data)
                 /\ apc' = apc
            ELSE /\ all_data' = all_data
                 /\ apc' = IF CaughtPerClient(task[c].error) THEN apc ELSE "raised"
    /\ UNCHANGED <<clients, parallel, dates, loopIdx, futures, calls>>
    /\ UNCHANGED <<rvars, cvars, pvars>>

\* One iteration of the sequential "for client in self.clients".
SeqStep ==
    /\ apc = "seq"
    /\ loopIdx < NumClients
    /\ LET c == loopIdx + 1
           r == FetchClientData(clients[c], dates)
       IN  /\ loopIdx' = c
           /\ calls' = [calls EXCEPT ![c] = calls[c] \o r.calls]
           /\ IF r.error = "none"
              THEN /\ all_data' = Extend(all_data, r.data)
                   /\ apc' = apc
              ELSE /\ all_data' = all_data
                   /\ apc' = IF CaughtPerClient(r.error) THEN apc ELSE "raised"
    /\ UNCHANGED <<clients, parallel, dates, futures, task>>
    /\ UNCHANGED <<rvars, cvars, pvars>>

\* A pool that is left as soon as one future was yielded.
PoolStarted(t) == \E c \in DOMAIN t : t[c].st = "yielded"

\* as_completed has yielded every future, so every task has completed: the
\* for loop ends and the with block's shutdown(wait=True) has nothing to
\* wait for.
PoolDrained(t) == \A c \in DOMAIN t : t[c].st = "yielded"

\* "return all_data": the sequential loop is over, or as_completed has
\* yielded every future and the with block has shut the pool down.
Return ==
    /\ IF apc = "seq" THEN loopIdx = NumClients
       ELSE apc = "collect" /\ PoolDrained(task)
    /\ apc' = "returned"
    /\ UNCHANGED <<clients, parallel, dates, all_data, loopIdx, futures, task, calls>>
    /\ UNCHANGED <<rvars, cvars, pvars>>

AggNext ==
    \/ Call
    \/ Submit
    \/ TaskStart
    \/ TaskFinish
    \/ Collect
    \/ SeqStep
    \/ Return

-----------------------------------------------------------------------------
(* The concrete clients: MetaAdsClient and GoogleAdsClient *)

ConcreteClients == {"meta", "google"}

\* The ends of the ranges the mock data is drawn from, per client:
\* the campaigns a fetch returns, impressions, clicks, spend, and for the ads
\* their number, impressions, the lower end of clicks and the divisor of its
\* upper end (impressions // divisor), and spend.
Mock(which) ==
    IF which = "meta"
    THEN [platform |-> "meta", campaign_name |-> "Meta Campaign",
          ad_name |-> "Meta Creative", campaigns |-> 3,
          impressions |-> <<1000, 10000>>, clicks |-> <<50, 500>>,
          spend |-> <<20 * FP, 200 * FP>>, num_ads |-> <<2, 5>>,
          ad_impressions |-> <<300, 3000>>, ad_clicks_low |-> 10,
          ad_clicks_div |-> 10, ad_spend |-> <<5 * FP, 50 * FP>>]
    ELSE [platform |-> "google", campaign_name |-> "Google Campaign",
          ad_name |-> "Google Ad", campaigns |-> 4,
          impressions |-> <<1500, 12000>>, clicks |-> <<75, 600>>,
          spend |-> <<50 * FP, 500 * FP>>, num_ads |-> <<2, 6>>,
          ad_impressions |-> <<400, 4000>>, ad_clicks_low |-> 15,
          ad_clicks_div |-> 8, ad_spend |-> <<10 * FP, 100 * FP>>]

\* A draw is 1 (every random value at the low end of its range) or 2 (high).
Draws == {1, 2}

\* The campaigns list a fetch_campaigns body builds.
MockCampaigns(which, draw) ==
    LET m == Mock(which)
    IN  [i \in 1..m.campaigns |->
            Campaign(<<m.platform, "campaign", i>>, <<m.campaign_name, i>>,
                     m.impressions[draw], m.clicks[draw], m.spend[draw])]

\* The ads list a fetch_ads body builds.
MockAds(which, campaign_id, draw) ==
    LET m == Mock(which)
        impressions == m.ad_impressions[draw]
        clicks == IF draw = 1 THEN m.ad_clicks_low
                  ELSE impressions \div m.ad_clicks_div
        spend == m.ad_spend[draw]
    IN  [i \in 1..m.num_ads[draw] |->
            WithMetrics(Ad(<<campaign_id, "ad", i>>, <<m.ad_name, i>>,
                           impressions, clicks, spend),
                        CalculateCtr(impressions, clicks),
                        CalculateCpc(spend, clicks))]

\* The errors the simulated API raises inside the try block of each fetch,
\* in the order the code tests for them.
CampaignsBodyErrors == <<"AuthenticationError", "RateLimitError">>

AdsBodyErrors == <<"AuthenticationError">>

\* The except clause of fetch_campaigns: what leaves it when e was raised.
CampaignsExcept(e) ==
    IF IsAuthenticationError(e) \/ e = "RateLimitError" THEN e
    ELSE "DataNotFoundError"

\* The except clause of fetch_ads.
AdsExcept(e) ==
    IF IsAuthenticationError(e) THEN e ELSE "DataNotFoundError"

\* A fetch that raises: no data; op is <<operation, campaign_id argument>>; `api` counts the random.random() error draws
\* and time.sleep calls made before it (the simulated API activity).
FetchRaised(op, which, args, err, api) ==
    [op |-> op[1], campaign_id |-> op[2], client |-> which, args |-> args,
     kind |-> err, val |-> << >>, api |-> api]

FetchReturned(op, which, args, v, api) ==
    [op |-> op[1], campaign_id |-> op[2], client |-> which, args |-> args,
     kind |-> "ok", val |-> v, api |-> api]

\* The outcome of a fetch: validation first, then the try block, in which
\* the `hit`-th error test fires (0: none does) and the data `drawn` is made;
\* `leaving` holds, per error test, the error that leaves the except clause.
FetchOutcome(op, which, args, hit, leaving, drawn) ==
    LET invalid == ValidateDateRange(args[1], args[2], args[3])
    IN  IF invalid # "none" THEN FetchRaised(op, which, args, invalid, 0)
        ELSE IF hit > 0
             THEN FetchRaised(op, which, args, leaving[hit], hit)
             ELSE FetchReturned(op, which, args, drawn, Len(leaving) + 1)

ClientInit == cret = Raised("none", "none")

\* MetaAdsClient.fetch_campaigns / GoogleAdsClient.fetch_campaigns
ClientFetchCampaigns ==
    /\ \E which \in ConcreteClients, args \in Dates \X Dates \X Dates,
          hit \in 0..Len(CampaignsBodyErrors), draw \in Draws :
         cret' = FetchOutcome(<<"fetch_campaigns", "">>, which, args, hit,
                              [i \in DOMAIN CampaignsBodyErrors |->
                                  CampaignsExcept(CampaignsBodyErrors[i])],
                              MockCampaigns(which, draw))
    /\ UNCHANGED <<rvars, avars, pvars>>

\* MetaAdsClient.fetch_ads / GoogleAdsClient.fetch_ads
ClientFetchAds ==
    /\ \E which \in ConcreteClients, args \in Dates \X Dates \X Dates,
          hit \in 0..Len(AdsBodyErrors), draw \in Draws,
          campaign_id \in {"campaign_1", "campaign_2"} :
         cret' = FetchOutcome(<<"fetch_ads", campaign_id>>, which, args, hit,
                              [i \in DOMAIN AdsBodyErrors |->
                                  AdsExcept(AdsBodyErrors[i])],
                              MockAds(which, campaign_id, draw))
    /\ UNCHANGED <<rvars, avars, pvars>>

ClientNext ==
    \/ ClientFetchCampaigns
    \/ ClientFetchAds

\* The try block of a fetch stands for the platform's API call (the
\* docstrings name the SDK calls of a real implementation), and the except
\* clause takes whatever it raises: "none" for a call that returns, or any
\* error class.
ApiErrors == Exceptions \cup {"none"}

\* The outcome of a fetch whose API call raises `raised` (or returns, for
\* "none"): validation first, then the except clause, which lets `leaving`
\* out.
ApiOutcome(op, which, args, raised, leaving, drawn) ==
    LET invalid == ValidateDateRange(args[1], args[2], args[3])
    IN  IF invalid # "none"
        THEN [op |-> op, client |-> which, args |-> args, raised |-> "none",
              kind |-> invalid, val |-> << >>]
        ELSE IF raised # "none"
             THEN [op |-> op, client |-> which, args |-> args,
                   raised |-> raised, kind |-> leaving, val |-> << >>]
             ELSE [op |-> op, client |-> which, args |-> args,
                   raised |-> "none", kind |-> "ok", val |-> drawn]

\* fetch_campaigns of a concrete client, whatever its API call does
ApiFetchCampaigns ==
    /\ \E which \in ConcreteClients, args \in Dates \X Dates \X Dates,
          raised \in ApiErrors, draw \in Draws :
         cret' = ApiOutcome("fetch_campaigns", which, args, raised,
                            CampaignsExcept(raised),
                            MockCampaigns(which, draw))
    /\ UNCHANGED <<rvars, avars, pvars>>

\* fetch_ads of a concrete client, whatever its API call does
ApiFetchAds ==
    /\ \E which \in ConcreteClients, args \in Dates \X Dates \X Dates,
          raised \in ApiErrors, draw \in Draws :
         cret' = ApiOutcome("fetch_ads", which, args, raised,
                            AdsExcept(raised),
                            MockAds(which, "campaign_1", draw))
    /\ UNCHANGED <<rvars, avars, pvars>>

ApiNext ==
    \/ ApiFetchCampaigns
    \/ ApiFetchAds

-----------------------------------------------------------------------------
(* The metric formulas on raw counters: the clients' helpers *)
(* (clients/base_client.py) and the rotator's backfill (rotator.py)          *)

\* Raw counters of an ad: the pair of the documented example ctr(1000, 50),
\* counters whose ratios do not end after two decimals, an ad nobody saw, and
\* ads that were seen and never clicked.
RawCounters ==
    {[impressions |-> 1000, clicks |-> 50, spend |-> 25 * FP],
     [impressions |-> 3,    clicks |-> 1,  spend |-> 10 * FP],
     [impressions |-> 7,    clicks |-> 3,  spend |-> 10 * FP],
     [impressions |-> 0,    clicks |-> 0,  spend |-> 0],
     [impressions |-> 1000, clicks |-> 0,  spend |-> 5 * FP],
     [impressions |-> 100,  clicks |-> 0,  spend |-> 0]}

\* A creative that comes with the raw counters only (tests/test_rotator.py
\* test_zero_impressions_ctr, test_zero_clicks_cpc).
RawCreative(r) ==
    [ad_id |-> "test", ad_name |-> "Test", impressions |-> r.impressions,
     clicks |-> r.clicks, spend |-> r.spend]

RawCreatives == {RawCreative(r) : r \in RawCounters}

\* No computing call was made yet; the caller holds the records `given`.
PureStart(given) ==
    /\ data = given
    /\ pret = [op |-> "none"]

PureIdle == PureStart(<< >>)

\* client._calculate_ctr(impressions, clicks)
CallCalculateCtr ==
    /\ \E r \in RawCounters :
         pret' = [op |-> "_calculate_ctr", impressions |-> r.impressions,
                  clicks |-> r.clicks,
                  val |-> CalculateCtr(r.impressions, r.clicks)]
    /\ UNCHANGED data
    /\ UNCHANGED <<rvars, avars, cvars>>

\* client._calculate_cpc(spend, clicks)
CallCalculateCpc ==
    /\ \E r \in RawCounters :
         pret' = [op |-> "_calculate_cpc", spend |-> r.spend,
                  clicks |-> r.clicks,
                  val |-> CalculateCpc(r.spend, r.clicks)]
    /\ UNCHANGED data
    /\ UNCHANGED <<rvars, avars, cvars>>

\* CreativeRotator([creative]) for a creative with raw counters only
ConstructRaw == ConstructOf({<<c>> : c \in RawCreatives})

\* add_creative(creative) for a creative with raw counters only
AddRaw == AddCreativeOf(RawCreatives)

MetricsNext ==
    \/ CallCalculateCtr
    \/ CallCalculateCpc
    \/ ConstructRaw
    \/ AddRaw

-----------------------------------------------------------------------------
(* CreativeRotator.get_rotation_stats *)

\* A creative that was shown and never clicked (ctr 0.0, cpc +infinity once
\* computed).
CreativeH ==
    [ad_id |-> "ad_8", ad_name |-> "Creative H", impressions |-> 100,
     clicks |-> 0, spend |-> 5 * FP]

\* The creatives of the rotators whose statistics are taken.
StatsPool ==
    {CreativeA, CreativeB, CreativeC, CreativeD, CreativeG, CreativeH}

\* sum(c[field] for c in s)
RECURSIVE SumOf(_, _)
SumOf(s, field) ==
    IF s = << >> THEN 0 ELSE s[1][field] + SumOf(Tail(s), field)

\* min(valid_ctr_creatives, key=lambda x: x['ctr']): the first element
\* holding the smallest key.
FirstMinCtr(s) ==
    s[CHOOSE i \in 1..Len(s) :
        /\ \A j \in 1..Len(s) : s[j].ctr >= s[i].ctr
        /\ \A j \in 1..(i - 1) : s[j].ctr > s[i].ctr]

\* max(valid_cpc_creatives, key=lambda x: x['cpc']): the first element
\* holding the largest key.
WorstCpc(s) ==
    s[CHOOSE i \in 1..Len(s) :
        /\ \A j \in 1..Len(s) : s[j].cpc <= s[i].cpc
        /\ \A j \in 1..(i - 1) : s[j].cpc < s[i].cpc]

\* [c for c in self.creatives if c['impressions'] > 0]
ValidCtrCreatives(cs) == SelectSeq(cs, HasImpressions)

\* A cpc eligibility that looks at the impressions.
ValidCpcByImpressions(cs) == SelectSeq(cs, HasImpressions)

\* [c for c in self.creatives if c['clicks'] > 0]
ValidCpcCreatives(cs) == SelectSeq(cs, HasClicks)

\* The entry of best_performing / worst_performing for one metric.
Performer(c, metric) ==
    IF metric = "ctr"
    THEN [ad_id |-> c.ad_id, ad_name |-> c.ad_name, ctr |-> c.ctr]
    ELSE [ad_id |-> c.ad_id, ad_name |-> c.ad_name, cpc |-> c.cpc]

\* The dict get_rotation_stats returns for the collection cs.
RotationStats(cs) ==
    LET total_impressions == SumOf(cs, "impressions")
        total_clicks == SumOf(cs, "clicks")
        total_spend == SumOf(cs, "spend")
        valid_ctr_creatives == ValidCtrCreatives(cs)
        valid_cpc_creatives == ValidCpcCreatives(cs)
        keys == (IF valid_ctr_creatives # << >> THEN {"ctr"} ELSE {})
                \cup (IF valid_cpc_creatives # << >> THEN {"cpc"} ELSE {})
    IN  [total_creatives |-> Len(cs),
         total_impressions |-> total_impressions,
         total_clicks |-> total_clicks,
         total_spend |-> Round2(total_spend, FP),
         average_ctr |-> IF total_impressions > 0
                         THEN Round2(total_clicks * 100, total_impressions)
                         ELSE 0,
         average_cpc |-> IF total_clicks > 0
                         THEN Round2(total_spend, total_clicks * FP)
                         ELSE 0,
         best_performing |->
            [k \in keys |->
                IF k = "ctr"
                THEN Performer(FirstMaxCtr(valid_ctr_creatives), "ctr")
                ELSE Performer(FirstMinCpc(valid_cpc_creatives), "cpc")],
         worst_performing |->
            [k \in keys |->
                IF k = "ctr"
                THEN Performer(FirstMinCtr(valid_ctr_creatives), "ctr")
                ELSE Performer(WorstCpc(valid_cpc_creatives), "cpc")]]

\* get_rotation_stats()
GetRotationStats ==
    /\ rstate = "ready"
    /\ rret' = Returned("get_rotation_stats", RotationStats(creatives))
    /\ UNCHANGED <<rstate, creatives, round_robin_index, rrCalls>>
    /\ UNCHANGED <<avars, cvars, pvars>>

\* A rotator over any creatives of StatsPool.
StatsInit == ConstructedFrom(SeqsUpTo(StatsPool, MaxCreatives))

StatsNext ==
    \/ GetRotationStats
    \/ RemoveCreative

-----------------------------------------------------------------------------
(* Rotators that removals empty and additions fill again *)

\* A rotator over any creatives that have every required field.
DrainInit == ConstructedFrom(SeqsUpTo(CompleteCreatives, MaxCreatives))

AddToDrained == AddCreativeOf(CompleteCreatives)

DrainNext ==
    \/ RemoveCreative
    \/ ChooseNext
    \/ GetRotationStats
    \/ AddToDrained

-----------------------------------------------------------------------------
(* Rotators over creatives whose metrics came with them *)

\* A creative whose supplied ctr and cpc (9.0 and 0.1) are not what its
\* counters give (1.0 and 2.0).
CreativeS ==
    [ad_id |-> "ad_9", ad_name |-> "Creative S", impressions |-> 1000,
     clicks |-> 10, spend |-> 20 * FP, ctr |-> 9 * FP, cpc |-> FP \div 10]

\* Creatives with both metrics supplied (A, S), with none (D) and with the
\* cpc only (E).
StoredPool == {CreativeA, CreativeS, CreativeD, CreativeE}

StoredInit == ConstructedFrom(SeqsUpTo(StoredPool, MaxCreatives))

\* add_creative(creative) for a creative of StoredPool
AddStored == AddCreativeOf(StoredPool)

StoredNext ==
    \/ ChooseNext
    \/ GetRotationStats
    \/ AddStored

-----------------------------------------------------------------------------
(* AdsAggregator.get_summary_stats, filter_by_platform and                  *)
(* filter_by_spend_threshold                                                 *)

\* Campaign records as _fetch_client_data formats them: the two of
\* MetaClient (spend 25.0 with one ad, spend 20.0 with none), the one of
\* GoogleClient (spend 50.0, two ads) and the one of WorkingClient (spend
\* 25.0, two ads).
RecordPool ==
    {Formatted(MetaClient, MetaClient.campaigns[1], MetaClient.ads[1]),
     Formatted(MetaClient, MetaClient.campaigns[2], MetaClient.ads[2]),
     Formatted(GoogleClient, GoogleClient.campaigns[1], GoogleClient.ads[1]),
     Formatted(WorkingClient, WorkingClient.campaigns[1],
               WorkingClient.ads[1])}

\* The platform arguments: those of the records and one no record has
\* (tests/test_aggregator.py test_platform_filtering).
PlatformArgs == {"meta", "google", "working", "nonexistent"}

\* The min_spend arguments: below, at, between and above the records'
\* spends (tests/test_aggregator.py test_spend_threshold_filtering uses 20.0
\* and 30.0).
SpendArgs == {0, 20 * FP, 25 * FP, 30 * FP, 50 * FP, 60 * FP}

\* sum(len(campaign['ads']) for campaign in d)
RECURSIVE SumAds(_)
SumAds(d) == IF d = << >> THEN 0 ELSE Len(d[1].ads) + SumAds(Tail(d))

\* A count of the platforms that counts a platform once per record.
NumPlatformsPerRecord(d) == Len(d)

\* len(set(campaign['platform'] for campaign in d))
NumPlatforms(d) == Cardinality({d[i].platform : i \in 1..Len(d)})

\* The "for campaign in data" loop of get_summary_stats from the k-th record
\* on.
RECURSIVE SummaryLoop(_, _, _)
SummaryLoop(d, k, stats) ==
    IF k > Len(d) THEN stats
    ELSE LET campaign == d[k]
             platform == campaign.platform
             breakdown ==
                IF platform \in DOMAIN stats.platform_breakdown
                THEN stats.platform_breakdown
                ELSE stats.platform_breakdown @@
                     (platform :> [campaigns |-> 0, ads |-> 0,
                                   impressions |-> 0, clicks |-> 0,
                                   spend |-> 0])
             entry == breakdown[platform]
         IN  SummaryLoop(d, k + 1,
                [stats EXCEPT
                   !.platform_breakdown =
                      [breakdown EXCEPT ![platform] =
                         [campaigns |-> entry.campaigns + 1,
                          ads |-> entry.ads + Len(campaign.ads),
                          impressions |-> entry.impressions
                                          + campaign.impressions,
                          clicks |-> entry.clicks + campaign.clicks,
                          spend |-> entry.spend + campaign.spend]],
                   !.totals =
                      [impressions |-> stats.totals.impressions
                                       + campaign.impressions,
                       clicks |-> stats.totals.clicks + campaign.clicks,
                       spend |-> stats.totals.spend + campaign.spend]])

\* The dict get_summary_stats returns for the records d: the loop, then the
\* rounding of the spends.
SummaryStats(d) ==
    LET stats == SummaryLoop(d, 1,
                    [total_platforms |-> NumPlatforms(d),
                     total_campaigns |-> Len(d),
                     total_ads |-> SumAds(d),
                     platform_breakdown |-> << >>,
                     totals |-> [impressions |-> 0, clicks |-> 0,
                                 spend |-> 0]])
    IN  [stats EXCEPT
           !.totals.spend = Round2(stats.totals.spend, FP),
           !.platform_breakdown =
              [platform \in DOMAIN stats.platform_breakdown |->
                  [stats.platform_breakdown[platform] EXCEPT
                     !.spend = Round2(stats.platform_breakdown[platform].spend,
                                      FP)]]]

\* A platform filter that stops at the first match.
ByPlatformFirstOnly(d, platform) ==
    LET Match(campaign) == campaign.platform = platform
        matches == SelectSeq(d, Match)
    IN  IF matches = << >> THEN << >> ELSE << matches[1] >>

\* [campaign for campaign in d if campaign['platform'] == platform]
ByPlatform(d, platform) ==
    LET Match(campaign) == campaign.platform = platform
    IN  SelectSeq(d, Match)

\* A spend filter that drops the records spending exactly min_spend.
AboveSpendThreshold(d, min_spend) ==
    LET Match(campaign) == campaign.spend > min_spend
    IN  SelectSeq(d, Match)

\* [campaign for campaign in d if campaign['spend'] >= min_spend]
BySpendThreshold(d, min_spend) ==
    LET Match(campaign) == campaign.spend >= min_spend
    IN  SelectSeq(d, Match)

\* The caller holds any list of up to MaxRecords records.
ReportInit ==
    /\ data \in SeqsUpTo(RecordPool, MaxRecords)
    /\ pret = [op |-> "none"]

\* get_summary_stats(data)
GetSummaryStats ==
    /\ pret' = [op |-> "get_summary_stats", arg |-> data,
                val |-> SummaryStats(data)]
    /\ UNCHANGED data
    /\ UNCHANGED <<rvars, avars, cvars>>

\* filter_by_platform(data, platform); `again` tells that data is what
\* the call before this one returned for the same platform.
FilterByPlatform ==
    /\ \E platform \in PlatformArgs :
         pret' = [op |-> "filter_by_platform", arg |-> data,
                  platform |-> platform,
                  again |-> /\ pret.op = "filter_by_platform"
                            /\ pret.platform = platform
                            /\ pret.val = data,
                  val |-> ByPlatform(data, platform)]
    /\ UNCHANGED data
    /\ UNCHANGED <<rvars, avars, cvars>>

\* filter_by_spend_threshold(data, min_spend)
FilterBySpendThreshold ==
    /\ \E min_spend \in SpendArgs :
         pret' = [op |-> "filter_by_spend_threshold", arg |-> data,
                  min_spend |-> min_spend,
                  val |-> BySpendThreshold(data, min_spend)]
    /\ UNCHANGED data
    /\ UNCHANGED <<rvars, avars, cvars>>

\* The caller goes on with the list a filter returned:
\* data = aggregator.filter_by_...(data, ...).
CallerKeepsResult ==
    /\ pret.op \in {"filter_by_platform", "filter_by_spend_threshold"}
    /\ data' = pret.val
    /\ UNCHANGED pret
    /\ UNCHANGED <<rvars, avars, cvars>>

ReportNext ==
    \/ GetSummaryStats
    \/ FilterByPlatform
    \/ FilterBySpendThreshold
    \/ CallerKeepsResult

-----------------------------------------------------------------------------
(* Specifications *)

AggIdle == AggStart(<< >>, FALSE, <<1, 1, 1>>)

RotatorSpecInit == RotatorInit /\ AggIdle /\ ClientInit /\ PureIdle

AggSpecInit == AggInit /\ RotatorInit /\ ClientInit /\ PureIdle

PoolSpecInit == PoolInit /\ RotatorInit /\ ClientInit /\ PureIdle

ClientSpecInit == ClientInit /\ RotatorInit /\ AggIdle /\ PureIdle

ChoiceSpecInit == ChoiceInit /\ AggIdle /\ ClientInit /\ PureIdle

CallerSpecInit == CallerInit /\ AggIdle /\ ClientInit /\ PureIdle

MetricsSpecInit == RotatorInit /\ AggIdle /\ ClientInit /\ PureIdle

StatsSpecInit == StatsInit /\ AggIdle /\ ClientInit /\ PureIdle

ReportSpecInit == ReportInit /\ RotatorInit /\ AggIdle /\ ClientInit

StoredSpecInit == StoredInit /\ AggIdle /\ ClientInit /\ PureIdle

DrainSpecInit == DrainInit /\ AggIdle /\ ClientInit /\ PureIdle

ApiSpecInit == ClientInit /\ RotatorInit /\ AggIdle /\ PureIdle

\* The rotator, from its construction on.
SpecRotator == RotatorSpecInit /\ [][RotatorNext]_vars

\* The choices of a constructed rotator.
SpecChoice == ChoiceSpecInit /\ [][ChoiceNext]_vars

\* A constructed rotator and what its caller does with the objects it holds.
SpecCaller == CallerSpecInit /\ [][CallerNext]_vars

\* One aggregate_data call of an aggregator with up to MaxClients clients.
SpecAgg == AggSpecInit /\ [][AggNext]_vars

\* One aggregate_data call in which the calling thread and the pool's
\* workers keep running and every fetch returns or raises: no step that
\* stays possible is put off forever.
SpecAggLive ==
    /\ AggSpecInit
    /\ [][AggNext]_vars
    /\ WF_vars(Submit)
    /\ WF_vars(TaskStart)
    /\ WF_vars(TaskFinish)
    /\ WF_vars(Collect)
    /\ WF_vars(SeqStep)
    /\ WF_vars(Return)

\* One parallel aggregate_data call with up to PoolClients clients.
SpecPool == PoolSpecInit /\ [][AggNext]_vars

\* Fetches of the concrete clients.
SpecClient == ClientSpecInit /\ [][ClientNext]_vars

\* Fetches of the concrete clients whose API call may raise any error.
SpecApi == ApiSpecInit /\ [][ApiNext]_vars

\* The metric formulas of the clients and of the rotator on raw counters.
SpecMetrics == MetricsSpecInit /\ [][MetricsNext]_vars

\* The statistics of a constructed rotator, taken as creatives are removed.
SpecStats == StatsSpecInit /\ [][StatsNext]_vars

\* A constructed rotator over creatives that came with metrics or without:
\* its choices, its statistics and additions to it.
SpecStored == StoredSpecInit /\ [][StoredNext]_vars

\* A constructed rotator whose creatives are removed, chosen from, summed up
\* and added to.
SpecDrained == DrainSpecInit /\ [][DrainNext]_vars

\* The summary and the filters, applied to lists of campaign records.
SpecReport == ReportSpecInit /\ [][ReportNext]_vars

-----------------------------------------------------------------------------
(* What the aggregation is expected to return, stated from the clients alone *)

\* Client c's fetch_campaigns raises in this call.
ClientFails(c) == FetchCampaigns(clients[c], dates).error # "none"

\* The fetch_ads call for client c's k-th campaign raises in this call.
AdsFail(c, k) == FetchAds(clients[c], k, dates).error # "none"

\* The record expected for client c's k-th campaign with the ads `ads`.
ExpectedRecord(c, k, ads) ==
    [platform |-> clients[c].platform_name,
     campaign_id |-> clients[c].campaigns[k].campaign_id,
     name |-> clients[c].campaigns[k].name,
     impressions |-> clients[c].campaigns[k].impressions,
     clicks |-> clients[c].campaigns[k].clicks,
     spend |-> clients[c].campaigns[k].spend,
     ads |-> ads]

\* What client c is expected to contribute: nothing when its fetch_campaigns
\* fails, else one record per campaign in fetch order, with no ads where
\* fetch_ads failed.
Contribution(c) ==
    IF ClientFails(c) THEN << >>
    ELSE [k \in 1..Len(clients[c].campaigns) |->
            ExpectedRecord(c, k, IF AdsFail(c, k) THEN << >>
                                 ELSE clients[c].ads[k])]

\* The contributions of clients 1..n, in client order.
RECURSIVE ContributionsUpTo(_)
ContributionsUpTo(n) ==
    IF n = 0 THEN << >> ELSE ContributionsUpTo(n - 1) \o Contribution(n)

Occurrences(s, x) == Cardinality({i \in DOMAIN s : s[i] = x})

\* s and t hold the same elements the same number of times.
SameBag(s, t) ==
    /\ Len(s) = Len(t)
    /\ \A i \in DOMAIN s : Occurrences(s, s[i]) = Occurrences(t, s[i])

AggReturned == apc = "returned"

-----------------------------------------------------------------------------
(* Claims *)

\* C1: once the rotator is constructed, whatever operations follow, a
\* non-empty collection has its round-robin cursor within 0 .. len - 1.
C1_CursorInBounds ==
    (rstate = "ready" /\ creatives # << >>) =>
        (0 <= round_robin_index /\ round_robin_index < Len(creatives))

\* A removal has just shrunk a collection of several creatives and the
\* cursor sits on its last element.
C1_Witness ==
    /\ rstate = "ready"
    /\ rret.op = "remove_creative" /\ rret.val
    /\ Len(creatives) >= 2
    /\ round_robin_index = Len(creatives) - 1

\* C2: the k-th round-robin call in a row since the cursor was put at 0
\* (by construction or reset_round_robin, with no add/remove since) returned
\* the creative at index (k - 1) mod len and left the cursor at k mod len.
C2_RoundRobinSequence ==
    (/\ rstate = "ready"
     /\ rret.op = "choose_next" /\ rret.kind = "ok"
     /\ rret.strategy = "round_robin"
     /\ rrCalls >= 1) =>
        /\ rret.val = creatives[((rrCalls - 1) % Len(creatives)) + 1]
        /\ round_robin_index = rrCalls % Len(creatives)

\* The fourth call in a row over three different creatives came back to the
\* first one.
C2_Witness ==
    /\ rstate = "ready"
    /\ rret.op = "choose_next" /\ rret.kind = "ok"
    /\ rret.strategy = "round_robin"
    /\ rrCalls = 4
    /\ Len(creatives) = 3
    /\ creatives[1] # creatives[2] /\ creatives[1] # creatives[3]
    /\ rret.val = creatives[1]

\* C3: in both modes a client whose fetch_campaigns raises does not make
\* aggregate_data raise, and when some client failed the result holds exactly
\* the other clients' contributions.
C3_FailingClientOmitted ==
    /\ apc # "raised"
    /\ (AggReturned /\ \E c \in 1..NumClients : ClientFails(c)) =>
          /\ SameBag(all_data, ContributionsUpTo(NumClients))
          /\ \A c \in 1..NumClients :
                (ClientFails(c) /\ \A b \in 1..NumClients :
                    clients[b].platform_name = clients[c].platform_name => ClientFails(b))
                => \A i \in DOMAIN all_data :
                      all_data[i].platform # clients[c].platform_name

\* A parallel call returned the records of working clients while one of its
\* clients had failed.
C3_Witness ==
    /\ AggReturned /\ UsePool(parallel, NumClients)
    /\ \E c \in 1..NumClients : clients[c] = FailingClient
    /\ all_data # << >>
    /\ ~Malformed(dates)

\* C4: a campaign whose fetch_ads raised is in the result with its fields
\* and ads == [], and the client's other campaigns are there with the ads
\* their own fetch_ads returned.
C4_AdsFailureKeepsCampaign ==
    AggReturned =>
        \A c \in 1..NumClients :
            ~ClientFails(c) =>
                \A k \in 1..Len(clients[c].campaigns) :
                    \E i \in DOMAIN all_data :
                        all_data[i] =
                            ExpectedRecord(c, k, IF AdsFail(c, k) THEN << >>
                                                 ELSE clients[c].ads[k])

\* A call returned with a client one of whose fetch_ads had raised and
\* another had returned ads.
C4_Witness ==
    /\ AggReturned
    /\ \E c \in 1..NumClients :
         /\ ~ClientFails(c)
         /\ \E k \in 1..Len(clients[c].campaigns) : AdsFail(c, k)
         /\ \E k \in 1..Len(clients[c].campaigns) :
               ~AdsFail(c, k) /\ clients[c].ads[k] # << >>

\* Every supplied client fails.
AllFail == NumClients >= 1 /\ \A c \in 1..NumClients : ClientFails(c)

\* C5: when every client's fetch_campaigns raises, aggregate_data raises
\* nothing, merges nothing and returns the empty list, in both modes.
C5_AllFailEmpty ==
    AllFail => /\ apc # "raised"
               /\ all_data = << >>
               /\ apc # "returned" => ENABLED AggNext

\* A parallel call over several clients that all failed has returned.
C5_Witness ==
    /\ AggReturned /\ AllFail
    /\ UsePool(parallel, NumClients) /\ ~Malformed(dates)
    /\ \A c \in 1..NumClients : calls[c] # << >>

\* C6: a sequential call returns the clients' contributions in client order,
\* each in campaign fetch order: N * C records when N clients each return C
\* campaigns.
C6_SequentialOrder ==
    (AggReturned /\ ~UsePool(parallel, NumClients)) =>
        /\ all_data = ContributionsUpTo(NumClients)
        /\ \A n \in {Len(clients[c].campaigns) : c \in 1..NumClients} :
              (\A c \in 1..NumClients :
                  ~ClientFails(c) /\ Len(clients[c].campaigns) = n)
              => Len(all_data) = NumClients * n

\* A sequential call over three working clients with two campaigns each has
\* returned.
C6_Witness ==
    /\ AggReturned /\ ~parallel
    /\ NumClients = 3
    /\ \A c \in 1..NumClients :
          ~ClientFails(c) /\ Len(clients[c].campaigns) = 2
    /\ Len(all_data) = 6

\* C7: a parallel call returns, whatever the order its tasks completed in,
\* the same records the same number of times as the sequential result.
C7_ParallelSameBag ==
    (AggReturned /\ UsePool(parallel, NumClients)) =>
        SameBag(all_data, ContributionsUpTo(NumClients))

\* A parallel call has returned the records in another order than the
\* sequential one, two of them equal.
C7_Witness ==
    /\ AggReturned /\ UsePool(parallel, NumClients)
    /\ all_data # ContributionsUpTo(NumClients)
    /\ \E i, j \in DOMAIN all_data : i # j /\ all_data[i] = all_data[j]

\* C8: a parallel call submits exactly one task per client, and never more
\* than 4 of them are executing at once.
C8_AtMostFourRunning ==
    /\ Cardinality(Running) <= 4
    /\ (UsePool(parallel, NumClients) /\ apc # "idle") =>
          /\ Len(futures) = loopIdx
          /\ \A c \in 1..NumClients :
                Occurrences(futures, c) = (IF c <= loopIdx THEN 1 ELSE 0)
          /\ apc # "submit" => Len(futures) = NumClients
          /\ \A c \in 1..NumClients :
                /\ task[c].st # "none" <=> c <= loopIdx
                /\ Occurrences(calls[c], <<"fetch_campaigns">>)
                      = (IF task[c].st \in {"done", "yielded"} THEN 1 ELSE 0)

\* Four tasks are executing while a fifth waits for a worker.
C8_Witness ==
    /\ Cardinality(Running) = 4
    /\ NumClients >= 5
    /\ \E c \in 1..NumClients : task[c].st = "queued"

\* C9 as stated: aggregate_data fails, before any fetch, when given no
\* clients or a malformed date range; so no such call returns.
C9_Original ==
    AggReturned => (NumClients > 0 /\ ~Malformed(dates))

\* C9 as the code has it: aggregate_data never fails.  With no clients it
\* returns the empty list; a malformed range is checked by the clients only,
\* each fetch_campaigns is still called, and the validating clients' errors
\* are caught like any other, leaving the other clients' records.
C9_NeverFails ==
    /\ apc # "raised"
    /\ (AggReturned /\ NumClients = 0) => all_data = << >>
    /\ (AggReturned /\ Malformed(dates)) =>
          /\ \A c \in 1..NumClients :
                calls[c] # << >> /\ calls[c][1] = <<"fetch_campaigns">>
          /\ \A i \in DOMAIN all_data :
                \E c \in 1..NumClients :
                    /\ ~clients[c].validates
                    /\ all_data[i].platform = clients[c].platform_name
          /\ \A c \in 1..NumClients :
                (~clients[c].validates /\ clients[c].error = "none") =>
                    \E i \in DOMAIN all_data :
                        all_data[i].platform = clients[c].platform_name

\* A call with a start date after the end date has returned: its validating
\* client was asked and contributed nothing, its other client's record is
\* there.
C9_Witness ==
    /\ AggReturned /\ dates[1] > dates[2]
    /\ \E c \in 1..NumClients : clients[c].validates /\ calls[c] # << >>
    /\ all_data # << >>

\* C10: a fetch of a concrete client over a range with start > end or
\* start > today raises ValueError, not an AdsAPIError, with no data built
\* and no simulated API activity; over any other range validation passes.
C10_InvalidRangeRejectedFirst ==
    cret.op # "none" =>
        IF cret.args[1] > cret.args[2] \/ cret.args[1] > cret.args[3]
        THEN /\ cret.kind = "ValueError"
             /\ cret.kind \notin AdsAPIErrors
             /\ cret.val = << >>
             /\ cret.api = 0
        ELSE cret.kind # "ValueError"

\* A fetch_ads over a well-ordered range that starts in the future raised
\* ValueError.
C10_Witness ==
    /\ cret.op # "none"
    /\ cret.op # "fetch_campaigns"
    /\ cret.args[1] <= cret.args[2] /\ cret.args[1] > cret.args[3]
    /\ cret.kind = "ValueError"

-----------------------------------------------------------------------------
(* Claims about the rotator's choices *)

\* The positions of the creatives that have impressions.
WithImpressions == {i \in 1..Len(creatives) : creatives[i].impressions > 0}

\* The positions of the creatives that have clicks.
WithClicks == {i \in 1..Len(creatives) : creatives[i].clicks > 0}

\* C11: choose_next('best_ctr') returns without error; when some creative
\* has impressions, what it returns is the earliest of the creatives with
\* impressions whose ctr is the largest among them; when none has, it is
\* some creative of the collection.
C11_BestCtr ==
    (rret.op = "choose_next" /\ rret.strategy = "best_ctr") =>
        /\ rret.kind = "ok"
        /\ IF WithImpressions # {}
           THEN \E i \in WithImpressions :
                  /\ rret.val = creatives[i]
                  /\ \A j \in WithImpressions :
                        /\ creatives[j].ctr <= creatives[i].ctr
                        /\ j < i => creatives[j].ctr < creatives[i].ctr
           ELSE \E i \in 1..Len(creatives) : rret.val = creatives[i]

\* Over ctr values 5.0, 2.0, 5.0 the call returned the creative at index 0.
C11_Witness ==
    /\ rret.op = "choose_next" /\ rret.strategy = "best_ctr"
    /\ rret.kind = "ok"
    /\ Len(creatives) = 3
    /\ creatives[1].ctr = 5 * FP /\ creatives[2].ctr = 2 * FP
    /\ creatives[3].ctr = 5 * FP
    /\ creatives[1] # creatives[3]
    /\ WithImpressions = {1, 2, 3}
    /\ rret.val = creatives[1]

\* C12: choose_next('lowest_cpc') returns without error; when some creative
\* has clicks, what it returns is the earliest of the creatives with clicks
\* whose cpc is the smallest among them; when none has, it is some creative
\* of the collection.
C12_LowestCpc ==
    (rret.op = "choose_next" /\ rret.strategy = "lowest_cpc") =>
        /\ rret.kind = "ok"
        /\ IF WithClicks # {}
           THEN \E i \in WithClicks :
                  /\ rret.val = creatives[i]
                  /\ \A j \in WithClicks :
                        /\ creatives[j].cpc >= creatives[i].cpc
                        /\ j < i => creatives[j].cpc > creatives[i].cpc
           ELSE \E i \in 1..Len(creatives) : rret.val = creatives[i]

\* No creative has clicks, and of two different creatives the call returned
\* the second.
C12_Witness ==
    /\ rret.op = "choose_next" /\ rret.strategy = "lowest_cpc"
    /\ rret.kind = "ok"
    /\ Len(creatives) = 2
    /\ WithClicks = {}
    /\ creatives[1] # creatives[2]
    /\ rret.val = creatives[2]

\* C13: a choose_next call with a strategy name that is none of round_robin,
\* best_ctr, lowest_cpc raises ValueError and leaves the collection and the
\* cursor as they were.
C13_UnknownStrategy ==
    [][(/\ rret'.op = "choose_next"
        /\ rret'.strategy \notin {"round_robin", "best_ctr", "lowest_cpc"}) =>
            /\ rret'.kind = "ValueError"
            /\ creatives' = creatives
            /\ round_robin_index' = round_robin_index]_vars

\* The call was refused while the cursor stood in the middle of the list.
C13_Witness ==
    /\ rret.op = "choose_next" /\ rret.kind = "ValueError"
    /\ rret.strategy = "invalid_strategy"
    /\ Len(creatives) = 3
    /\ round_robin_index = 1

-----------------------------------------------------------------------------
(* Claims about the objects a rotator and its caller hold *)

\* C14: a write to the dict that choose_next returned (whatever the
\* strategy, the random fallback included), or to a chosen_creative of what
\* simulate_rotation returned, leaves the stored creatives and the cursor as
\* they were, and with them the result of every later call.
C14_ReturnedCopies ==
    [][(CallerMutatesChoice \/ CallerMutatesSimulated) =>
            /\ creatives' = creatives
            /\ round_robin_index' = round_robin_index]_vars

\* The caller has written to a chosen_creative of a simulation, and none of
\* the three stored creatives shows the write.
C14_Witness ==
    /\ rret.op = "simulate_rotation" /\ rret.kind = "ok"
    /\ \E k \in 1..Len(rret.val) :
          rret.val[k].chosen_creative.impressions = 0
    /\ Len(creatives) = 3
    /\ \A i \in 1..Len(creatives) : creatives[i].impressions > 0

\* C15 as stated: nothing the caller does to the list or the dicts it passed
\* in, or to a value it got back, changes the rotator's collection or cursor,
\* and the cursor of a non-empty collection stays within 0 .. len - 1.
C15_Original ==
    /\ [][(\/ CallerMutatesList
           \/ CallerMutatesRecord
           \/ CallerMutatesChoice
           \/ CallerMutatesSimulated) =>
               /\ creatives' = creatives
               /\ round_robin_index' = round_robin_index]_vars
    /\ [](creatives # << >> =>
            (0 <= round_robin_index /\ round_robin_index < Len(creatives)))

-----------------------------------------------------------------------------
(* Claims about changes to the collection *)

\* The positions of the creatives whose ad_id is the one of the last
\* remove_creative call, in the collection as it was before the call.
Matching(ad_id) == {i \in 1..Len(creatives) : creatives[i].ad_id = ad_id}

\* C16 as stated: remove_creative returns true exactly when a creative has
\* the ad_id, and then removes the first such creative and no other.
C16_Original ==
    [][rret'.op = "remove_creative" =>
        LET hits == Matching(rret'.ad_id)
        IN  /\ rret'.val = (hits # {})
            /\ IF hits = {} THEN creatives' = creatives
               ELSE LET first == CHOOSE i \in hits : \A j \in hits : i <= j
                    IN  /\ Len(creatives') = Len(creatives) - 1
                        /\ \A i \in 1..(first - 1) :
                              creatives'[i] = creatives[i]
                        /\ \A i \in (first + 1)..Len(creatives) :
                              creatives'[i - 1] = creatives[i]]_vars

\* C16, amended: remove_creative removes every creative that has the ad_id,
\* keeps the others in their order, and returns true exactly when it removed
\* at least one.
C16_RemovesEveryMatch ==
    [][rret'.op = "remove_creative" =>
        LET hits == Matching(rret'.ad_id)
            rest == (1..Len(creatives)) \ hits
        IN  /\ rret'.val = (hits # {})
            /\ Len(creatives') = Cardinality(rest)
            /\ \A i \in rest :
                  creatives'[Cardinality({j \in rest : j <= i})] =
                      creatives[i]]_vars

\* One call removed two creatives of the same ad_id and left a third one.
C16_Witness ==
    /\ rret.op = "remove_creative" /\ rret.val
    /\ rret.initial_length = 3
    /\ Len(creatives) = 1
    /\ creatives[1].ad_id # rret.ad_id

\* C17: remove_creative with an ad_id that no creative has returns false and
\* leaves the collection and the cursor as they were; with an ad_id that some
\* creative has it returns true and leaves the cursor at 0 if the old cursor
\* is at or past the new length, and where it was otherwise.
C17_RemoveCursor ==
    [][rret'.op = "remove_creative" =>
        IF Matching(rret'.ad_id) = {}
        THEN /\ rret'.val = FALSE
             /\ creatives' = creatives
             /\ round_robin_index' = round_robin_index
        ELSE /\ rret'.val = TRUE
             /\ round_robin_index' =
                    IF round_robin_index >= Len(creatives') THEN 0
                    ELSE round_robin_index]_vars

\* The last of three creatives was removed while the cursor stood on the
\* second, and the cursor stayed there.
C17_Witness ==
    /\ rret.op = "remove_creative" /\ rret.val
    /\ rret.initial_length = 3
    /\ Len(creatives) = 2
    /\ \A i \in 1..2 : creatives[i].ad_id # rret.ad_id
    /\ round_robin_index = 1

\* C18: add_creative of a dict that has every required field returns, and
\* the collection is the old one followed by that dict, with ctr and cpc
\* added where the dict had none and every item it had kept; the cursor is
\* where it was.
C18_AddAppends ==
    [][(/\ rret'.op = "add_creative"
        /\ {"ad_id", "ad_name", "impressions", "clicks", "spend"}
               \subseteq DOMAIN rret'.creative) =>
        LET c == rret'.creative
            n == Len(creatives)
        IN  /\ rret'.kind = "ok"
            /\ Len(creatives') = n + 1
            /\ \A i \in 1..n : creatives'[i] = creatives[i]
            /\ DOMAIN creatives'[n + 1] = DOMAIN c \cup {"ctr", "cpc"}
            /\ \A f \in DOMAIN c : creatives'[n + 1][f] = c[f]
            /\ round_robin_index' = round_robin_index]_vars

\* A dict that came with a cpc and no ctr was added behind two creatives
\* while the cursor stood on the second.
C18_Witness ==
    /\ rret.op = "add_creative" /\ rret.kind = "ok"
    /\ "cpc" \in DOMAIN rret.creative /\ "ctr" \notin DOMAIN rret.creative
    /\ Len(creatives) = 3
    /\ creatives[3].ad_id = rret.creative.ad_id
    /\ creatives[3].cpc = rret.creative.cpc
    /\ creatives[1].ad_id # creatives[3].ad_id
    /\ round_robin_index = 1

\* C19: the constructor, given an empty list or a list with a creative that
\* lacks one of the five required fields, raises ValueError, and there is no
\* rotator to call anything on.
C19_ConstructionRejects ==
    (/\ rret.op = "init"
     /\ \/ creatives = << >>
        \/ \E i \in 1..Len(creatives) :
              \E f \in {"ad_id", "ad_name", "impressions", "clicks", "spend"} :
                  f \notin DOMAIN creatives[i]) =>
        /\ rret.kind = "ValueError"
        /\ rstate = "failed"
        /\ ~ ENABLED RotatorNext

\* The constructor refused a list whose first creative is complete and
\* whose second lacks only clicks.
C19_Witness ==
    /\ rstate = "failed"
    /\ rret.op = "init" /\ rret.kind = "ValueError"
    /\ Len(creatives) = 2
    /\ DOMAIN creatives[1] =
          {"ad_id", "ad_name", "impressions", "clicks", "spend", "ctr", "cpc"}
    /\ {"ad_id", "ad_name", "impressions", "spend"} \subseteq DOMAIN creatives[2]
    /\ "clicks" \notin DOMAIN creatives[2]

\* The cursor that the i-th choose_next call of a simulation starts from,
\* the first call starting from `start`.
CursorOfCall(start, strategy, i) ==
    IF strategy = "round_robin" THEN (start + i - 1) % Len(creatives)
    ELSE start

\* C20: simulate_rotation(n, strategy) puts the cursor to 0 if and only if
\* strategy is round_robin and then makes n choose_next(strategy) calls (none
\* for n <= 0): it raises what the first call raises, else returns n entries
\* numbered 1..n, entry i holding what the i-th call returned, and leaves the
\* cursor where the n calls leave it.
C20_SimulateAsCalls ==
    [][rret'.op = "simulate_rotation" =>
        LET n == rret'.n
            strategy == rret'.strategy
            start == IF strategy = "round_robin" THEN 0 ELSE round_robin_index
        IN  /\ creatives' = creatives
            /\ IF n <= 0
               THEN /\ rret'.kind = "ok" /\ rret'.val = << >>
                    /\ round_robin_index' = start
               ELSE IF \/ creatives = << >>
                       \/ strategy \notin {"round_robin", "best_ctr",
                                           "lowest_cpc"}
               THEN /\ rret'.kind = "ValueError"
                    /\ round_robin_index' = start
               ELSE /\ rret'.kind = "ok"
                    /\ Len(rret'.val) = n
                    /\ \A i \in 1..n :
                          /\ DOMAIN rret'.val[i] =
                                {"iteration", "chosen_creative"}
                          /\ rret'.val[i].iteration = i
                          /\ rret'.val[i].chosen_creative \in
                                Choices(creatives,
                                        CursorOfCall(start, strategy, i),
                                        strategy)
                    /\ round_robin_index' =
                          CursorOfCall(start, strategy, n + 1)]_vars

\* A best_ctr simulation of three calls returned while the cursor stood on
\* the third creative, and left it there.
C20_Witness ==
    /\ rret.op = "simulate_rotation" /\ rret.kind = "ok"
    /\ rret.strategy = "best_ctr" /\ rret.n = 3
    /\ Len(rret.val) = 3
    /\ rret.val[3].iteration = 3
    /\ Len(creatives) = 3
    /\ round_robin_index = 2

-----------------------------------------------------------------------------
(* The metric formulas *)

Dist(a, b) == IF a >= b THEN a - b ELSE b - a

\* v is the quotient num / den rounded to two decimals: a whole number of
\* hundredths with no other hundredth nearer to the quotient (num and v in
\* fixed point).
NearestHundredth(v, num, den) ==
    /\ v % (FP \div 100) = 0
    /\ 2 * Dist(v * den, num) <= den * (FP \div 100)

\* v is the quotient num / den itself, as far as fixed point holds it.
Quotient(v, num, den) ==
    /\ v * den <= num
    /\ num < (v + 1) * den

\* C21 (as the code has it): cpc without clicks depends on the call site: the
\* clients' helper returns 0.0, the rotator's backfill, at construction and in
\* add_creative, stores +infinity.  With clicks the helper returns
\* spend / clicks rounded to two decimals and the backfill stores
\* spend / clicks unrounded.
C21_CpcPerCallSite ==
    /\ pret.op = "_calculate_cpc" =>
          IF pret.clicks = 0
          THEN pret.val = 0
          ELSE NearestHundredth(pret.val, pret.spend, pret.clicks)
    /\ \A i \in 1..Len(creatives) :
          IF creatives[i].clicks = 0
          THEN creatives[i].cpc = Inf
          ELSE Quotient(creatives[i].cpc, creatives[i].spend,
                        creatives[i].clicks)

\* C21 (as stated): 0.0 from the helper and +infinity from the backfill
\* without clicks; with clicks both give spend / clicks.
C21_Original ==
    /\ pret.op = "_calculate_cpc" =>
          IF pret.clicks = 0
          THEN pret.val = 0
          ELSE Quotient(pret.val, pret.spend, pret.clicks)
    /\ \A i \in 1..Len(creatives) :
          IF creatives[i].clicks = 0
          THEN creatives[i].cpc = Inf
          ELSE Quotient(creatives[i].cpc, creatives[i].spend,
                        creatives[i].clicks)

\* The helper returned 0.0 for an ad without clicks, while a rotator holds a
\* creative without clicks from its construction and another from
\* add_creative, both with cpc +infinity.
C21_Witness ==
    /\ pret.op = "_calculate_cpc" /\ pret.clicks = 0 /\ pret.val = 0
    /\ rret.op = "add_creative" /\ rret.kind = "ok"
    /\ Len(creatives) = 2
    /\ creatives[1].clicks = 0 /\ creatives[1].cpc = Inf
    /\ creatives[2].clicks = 0 /\ creatives[2].cpc = Inf

-----------------------------------------------------------------------------
(* The rotation statistics *)

\* The sum of a field over the creatives at the positions S.
RECURSIVE Total(_, _)
Total(S, field) ==
    IF S = {} THEN 0
    ELSE LET i == CHOOSE j \in S : TRUE
         IN  creatives[i][field] + Total(S \ {i}, field)

\* C23: get_rotation_stats reports the number of creatives and the raw sums
\* of their impressions and clicks.  It names a best and a worst creative by
\* ctr exactly when some creative has impressions > 0, and by cpc exactly
\* when some creative has clicks > 0, each decided on its own.  The best by
\* ctr is a creative with impressions whose ctr no other such creative
\* exceeds; the best by cpc is a creative with clicks whose cpc no other such
\* creative undercuts.
C23_RotationStats ==
    rret.op = "get_rotation_stats" =>
        LET stats == rret.val
            best == stats.best_performing
            worst == stats.worst_performing
        IN  /\ rret.kind = "ok"
            /\ stats.total_creatives = Len(creatives)
            /\ stats.total_impressions =
                  Total(1..Len(creatives), "impressions")
            /\ stats.total_clicks = Total(1..Len(creatives), "clicks")
            /\ "ctr" \in DOMAIN best <=> WithImpressions # {}
            /\ "ctr" \in DOMAIN worst <=> WithImpressions # {}
            /\ "cpc" \in DOMAIN best <=> WithClicks # {}
            /\ "cpc" \in DOMAIN worst <=> WithClicks # {}
            /\ DOMAIN best \subseteq {"ctr", "cpc"}
            /\ DOMAIN worst \subseteq {"ctr", "cpc"}
            /\ "ctr" \in DOMAIN best =>
                  \E i \in WithImpressions :
                     /\ best.ctr = [ad_id |-> creatives[i].ad_id,
                                    ad_name |-> creatives[i].ad_name,
                                    ctr |-> creatives[i].ctr]
                     /\ \A j \in WithImpressions :
                           creatives[j].ctr <= creatives[i].ctr
            /\ "cpc" \in DOMAIN best =>
                  \E i \in WithClicks :
                     /\ best.cpc = [ad_id |-> creatives[i].ad_id,
                                    ad_name |-> creatives[i].ad_name,
                                    cpc |-> creatives[i].cpc]
                     /\ \A j \in WithClicks :
                           creatives[j].cpc >= creatives[i].cpc

\* The statistics of a rotator with three creatives, one of them shown and
\* never clicked and none of them clicked, were taken: they name a best
\* creative by ctr and none by cpc.
C23_Witness ==
    /\ rret.op = "get_rotation_stats"
    /\ Len(creatives) = 3
    /\ rret.val.total_creatives = 3
    /\ WithImpressions # {} /\ WithClicks = {}
    /\ DOMAIN rret.val.best_performing = {"ctr"}
    /\ rret.val.best_performing.ctr.ad_id = "ad_8"

-----------------------------------------------------------------------------
(* The summary and the filters *)

\* The sum of f[i] over the i in S.
RECURSIVE SumOver(_, _)
SumOver(S, f) ==
    IF S = {} THEN 0
    ELSE LET i == CHOOSE j \in S : TRUE
         IN  f[i] + SumOver(S \ {i}, f)

\* The positions of the records of platform p in the list d.
OfPlatform(d, p) == {i \in 1..Len(d) : d[i].platform = p}

\* r is the list d cut down to its positions S, in the order of d.
IsSubsequenceAt(r, d, S) ==
    /\ Len(r) = Cardinality(S)
    /\ \A i \in S : r[Cardinality({j \in S : j <= i})] = d[i]

\* C24: get_summary_stats(records) returns total_campaigns = the number of
\* records, total_ads = the sum of the records' ad counts, total_platforms =
\* the number of distinct platform values = the number of keys of
\* platform_breakdown, per platform the campaigns, ads, impressions and
\* clicks summed over that platform's records, and global impressions and
\* clicks equal to the sums of the per-platform figures; the caller's
\* records are what they were.
C24_SummaryStats ==
    pret.op = "get_summary_stats" =>
        LET d == pret.arg
            stats == pret.val
            breakdown == stats.platform_breakdown
            all == 1..Len(d)
        IN  /\ stats.total_campaigns = Len(d)
            /\ stats.total_ads = SumOver(all, [i \in all |-> Len(d[i].ads)])
            /\ stats.total_platforms =
                  Cardinality({d[i].platform : i \in all})
            /\ stats.total_platforms = Cardinality(DOMAIN breakdown)
            /\ DOMAIN breakdown = {d[i].platform : i \in all}
            /\ \A p \in DOMAIN breakdown :
                  LET mine == OfPlatform(d, p)
                  IN  /\ breakdown[p].campaigns = Cardinality(mine)
                      /\ breakdown[p].ads =
                            SumOver(mine, [i \in mine |-> Len(d[i].ads)])
                      /\ breakdown[p].impressions =
                            SumOver(mine, [i \in mine |-> d[i].impressions])
                      /\ breakdown[p].clicks =
                            SumOver(mine, [i \in mine |-> d[i].clicks])
            /\ stats.totals.impressions =
                  SumOver(DOMAIN breakdown,
                          [p \in DOMAIN breakdown |-> breakdown[p].impressions])
            /\ stats.totals.clicks =
                  SumOver(DOMAIN breakdown,
                          [p \in DOMAIN breakdown |-> breakdown[p].clicks])
            /\ data = d

\* The summary of three records was taken, two of one platform and one of
\* another, with three ads between them: two platforms, three campaigns.
C24_Witness ==
    /\ pret.op = "get_summary_stats"
    /\ Len(pret.arg) = 3
    /\ pret.val.total_platforms = 2
    /\ pret.val.total_campaigns = 3
    /\ pret.val.total_ads = 3
    /\ DOMAIN pret.val.platform_breakdown = {"meta", "google"}
    /\ pret.val.platform_breakdown["meta"].campaigns = 2

\* C25: filter_by_spend_threshold(records, T) returns exactly the records
\* with spend >= T, in their input order: none when T exceeds every spend,
\* all of them in the same order when no spend is below T, and a record
\* spending exactly T is kept.
C25_SpendThreshold ==
    pret.op = "filter_by_spend_threshold" =>
        LET d == pret.arg
            T == pret.min_spend
            all == 1..Len(d)
        IN  /\ IsSubsequenceAt(pret.val, d, {i \in all : d[i].spend >= T})
            /\ (\A i \in all : d[i].spend < T) => pret.val = << >>
            /\ (\A i \in all : d[i].spend >= T) => pret.val = d
            /\ \A i \in all :
                  d[i].spend = T =>
                     \E k \in 1..Len(pret.val) : pret.val[k] = d[i]

\* A filter at 25.0 was applied to three records spending 25.0, 20.0 and
\* 50.0 and returned the first and the third.
C25_Witness ==
    /\ pret.op = "filter_by_spend_threshold"
    /\ pret.min_spend = 25 * FP
    /\ Len(pret.arg) = 3
    /\ pret.arg[1].spend = 25 * FP
    /\ pret.arg[2].spend = 20 * FP
    /\ pret.arg[3].spend = 50 * FP
    /\ pret.val = << pret.arg[1], pret.arg[3] >>

\* C26: filter_by_platform(records, p) returns exactly the records whose
\* platform is p, in their input order, and none when no record has platform
\* p; applied to what it returned for the same p, it returns that list
\* again.
C26_PlatformFilter ==
    pret.op = "filter_by_platform" =>
        LET d == pret.arg
            p == pret.platform
        IN  /\ IsSubsequenceAt(pret.val, d, OfPlatform(d, p))
            /\ OfPlatform(d, p) = {} => pret.val = << >>
            /\ pret.again => pret.val = d

\* The filter was applied a second time with the same platform, to the two
\* different records that it had returned the first time.
C26_Witness ==
    /\ pret.op = "filter_by_platform"
    /\ pret.platform = "meta"
    /\ pret.again
    /\ Len(pret.arg) = 2
    /\ pret.arg[1] # pret.arg[2]
    /\ pret.val = pret.arg
    /\ data = pret.arg

-----------------------------------------------------------------------------
(* The merge *)

\* The clients whose future the as_completed loop has dealt with.
Yielded == {c \in 1..NumClients : task[c].st = "yielded"}

\* The ways to put the clients of S in a row.
Orders(S) ==
    {o \in [1..Cardinality(S) -> S] :
        \A i, j \in 1..Cardinality(S) : i # j => o[i] # o[j]}

\* The contributions of the clients o[1..n], one after the other.
RECURSIVE Blocks(_, _)
Blocks(o, n) ==
    IF n = 0 THEN << >> ELSE Blocks(o, n - 1) \o Contribution(o[n])

\* C27: in a parallel call a task's step changes nothing but that task's own
\* state, and the result changes only in the calling thread's step that
\* takes one completed task's list and appends it whole.  So at every moment
\* the result is the lists of the clients merged so far, each list once and
\* in one piece, one list after the other.
C27_SingleMergePoint ==
    [][UsePool(parallel, NumClients) /\ apc # "idle" =>
        /\ \A c \in 1..NumClients :
              (task[c].st = "running" /\ task'[c].st = "done") =>
                 /\ all_data' = all_data
                 /\ task'[c].data = Contribution(c)
                 /\ \A b \in 1..NumClients \ {c} : task'[b] = task[b]
        /\ all_data' # all_data =>
              \E c \in 1..NumClients :
                 /\ task[c].st = "done" /\ task'[c].st = "yielded"
                 /\ task[c].error = "none"
                 /\ all_data' = all_data \o task[c].data
                 /\ \A b \in 1..NumClients \ {c} : task'[b] = task[b]
        /\ \E o \in Orders(Yielded') : all_data' = Blocks(o, Len(o))]_vars

\* A parallel call over three working clients has returned: the list of the
\* second client, then the two records of the first, then the list of the
\* third.
C27_Witness ==
    /\ AggReturned /\ UsePool(parallel, NumClients)
    /\ NumClients = 3
    /\ \A c \in 1..NumClients : ~ClientFails(c)
    /\ Len(Contribution(1)) = 2
    /\ Contribution(2) # << >>
    /\ Contribution(3) # << >>
    /\ all_data = Contribution(2) \o Contribution(1) \o Contribution(3)

\* Client c's list has been merged into the result.
Merged(c) ==
    IF UsePool(parallel, NumClients) THEN task[c].st = "yielded"
    ELSE apc \in {"seq", "returned"} /\ c <= loopIdx

\* C28: in both modes the records of a merged client stand in the result in
\* the order its fetch_campaigns returned the campaigns, the campaigns whose
\* fetch_ads failed among them at their place, with no ads.
C28_PerClientOrder ==
    \A c \in 1..NumClients :
        (Merged(c) /\ ~ClientFails(c)) =>
            LET campaigns == clients[c].campaigns
                n == Len(campaigns)
            IN  \E f \in [1..n -> DOMAIN all_data] :
                   /\ \A j, k \in 1..n : j < k => f[j] < f[k]
                   /\ \A k \in 1..n :
                         /\ all_data[f[k]].platform = clients[c].platform_name
                         /\ all_data[f[k]].campaign_id =
                               campaigns[k].campaign_id
                         /\ AdsFail(c, k) => all_data[f[k]].ads = << >>

\* A parallel call has returned in which the client merged last, not the
\* one submitted last, is one whose fetch_ads failed for its first campaign
\* and worked for its second: the first campaign's record, without ads,
\* stands right before the second's.
C28_Witness ==
    /\ AggReturned /\ UsePool(parallel, NumClients)
    /\ \E c \in 1..(NumClients - 1) :
          /\ ~ClientFails(c)
          /\ Len(clients[c].campaigns) = 2
          /\ AdsFail(c, 1) /\ ~AdsFail(c, 2)
          /\ Len(all_data) > 2
          /\ all_data[Len(all_data) - 1] = Contribution(c)[1]
          /\ all_data[Len(all_data) - 1].ads = << >>
          /\ all_data[Len(all_data)] = Contribution(c)[2]
          /\ all_data[Len(all_data)].ads # << >>

C30_Terminates ==
    /\ (apc \in {"submit", "seq"}) ~> AggReturned
    /\ [](AggReturned /\ UsePool(parallel, NumClients) =>
            /\ Len(futures) = NumClients
            /\ \A c \in 1..NumClients : task[c].st = "yielded")

\* A parallel call over three clients has returned, all three tasks yielded
\* and the records of the working ones merged.
C30_Witness ==
    /\ AggReturned /\ UsePool(parallel, NumClients)
    /\ NumClients = 3
    /\ \A c \in 1..NumClients : task[c].st = "yielded"
    /\ Len(all_data) = Len(ContributionsUpTo(NumClients))
    /\ all_data # << >>

-----------------------------------------------------------------------------
(* The fetch calls of one aggregate_data call *)

\* _fetch_client_data has run for client c.
Fetched(c) ==
    IF UsePool(parallel, NumClients) THEN task[c].st \in {"done", "yielded"}
    ELSE apc \in {"seq", "returned"} /\ c <= loopIdx

\* The calls expected on client c: fetch_campaigns, and when it returned,
\* one fetch_ads per campaign in the order of the campaigns.
ExpectedCalls(c) ==
    IF ClientFails(c) THEN << <<"fetch_campaigns">> >>
    ELSE << <<"fetch_campaigns">> >> \o
         [k \in 1..Len(clients[c].campaigns) |->
             <<"fetch_ads", clients[c].campaigns[k].campaign_id>>]

\* C31: within one aggregate_data call each client gets one fetch_campaigns
\* call and, when that call returned, then one fetch_ads call per campaign
\* in campaign order; a failed call is not made again, and a client whose
\* fetch_campaigns failed gets no fetch_ads call.
C31_FetchCallsOnce ==
    \A c \in 1..NumClients :
        calls[c] = (IF Fetched(c) THEN ExpectedCalls(c) ELSE << >>)

\* A call has returned in which one client's fetch_campaigns failed, with
\* that one call made on it, and another's fetch_ads failed for the first of
\* its two campaigns, with three calls made on it.
C31_Witness ==
    /\ AggReturned
    /\ \E b, c \in 1..NumClients :
          /\ ClientFails(b) /\ clients[b].error # "none"
          /\ calls[b] = << <<"fetch_campaigns">> >>
          /\ ~ClientFails(c) /\ AdsFail(c, 1)
          /\ Len(calls[c]) = 3
          /\ calls[c][2] = <<"fetch_ads", clients[c].campaigns[1].campaign_id>>
          /\ calls[c][3] = <<"fetch_ads", clients[c].campaigns[2].campaign_id>>

-----------------------------------------------------------------------------
(* The stored metrics *)

\* The creative of StoredPool that was handed over under c's ad_id.
Supplied(c) == CHOOSE p \in StoredPool : p.ad_id = c.ad_id

\* C32: a ctr or cpc that came with a creative stays as it came, and one
\* that did not is what the counters gave when the creative was taken in,
\* each of the two on its own; best_ctr, lowest_cpc and get_rotation_stats
\* rank by these stored values, whatever the counters would give now.
C32_StoredMetrics ==
    /\ \A i \in 1..Len(creatives) :
          LET c == creatives[i]
              p == Supplied(c)
          IN  /\ c.impressions = p.impressions
              /\ c.clicks = p.clicks
              /\ c.spend = p.spend
              /\ c.ctr = (IF "ctr" \in DOMAIN p THEN p.ctr
                          ELSE IF p.impressions = 0 THEN 0
                          ELSE (p.clicks * 100 * FP) \div p.impressions)
              /\ c.cpc = (IF "cpc" \in DOMAIN p THEN p.cpc
                          ELSE IF p.clicks = 0 THEN Inf
                          ELSE p.spend \div p.clicks)
    /\ (rret.op = "choose_next" /\ rret.kind = "ok"
        /\ rret.strategy = "best_ctr" /\ WithImpressions # {}) =>
          \E i \in WithImpressions :
             /\ rret.val = creatives[i]
             /\ \A j \in WithImpressions : creatives[j].ctr <= creatives[i].ctr
    /\ (rret.op = "choose_next" /\ rret.kind = "ok"
        /\ rret.strategy = "lowest_cpc" /\ WithClicks # {}) =>
          \E i \in WithClicks :
             /\ rret.val = creatives[i]
             /\ \A j \in WithClicks : creatives[j].cpc >= creatives[i].cpc
    /\ rret.op = "get_rotation_stats" =>
          /\ WithImpressions # {} =>
                /\ \E i \in WithImpressions :
                      rret.val.best_performing.ctr.ctr = creatives[i].ctr
                /\ \A j \in WithImpressions :
                      creatives[j].ctr <= rret.val.best_performing.ctr.ctr
          /\ WithClicks # {} =>
                /\ \E i \in WithClicks :
                      rret.val.best_performing.cpc.cpc = creatives[i].cpc
                /\ \A j \in WithClicks :
                      creatives[j].cpc >= rret.val.best_performing.cpc.cpc

\* A rotator holds the creative that came with ctr 9.0 although its counters
\* give 1.0, before one that came with ctr 5.0 and one that came without
\* metrics and got 4.0: best_ctr has returned the first.
C32_Witness ==
    /\ rret.op = "choose_next" /\ rret.kind = "ok"
    /\ rret.strategy = "best_ctr"
    /\ Len(creatives) = 3
    /\ creatives[1].ad_id = "ad_9" /\ creatives[1].ctr = 9 * FP
    /\ creatives[1].clicks * 100 < 9 * creatives[1].impressions
    /\ creatives[2].ad_id = "ad_1" /\ creatives[2].ctr = 5 * FP
    /\ creatives[3].ad_id = "ad_4" /\ creatives[3].ctr = 4 * FP
    /\ rret.val = creatives[1]

-----------------------------------------------------------------------------
(* The errors of the concrete clients' fetches *)

C34_ReadOnlyCalls ==
    [][(\/ rret'.op = "get_rotation_stats"
        \/ /\ rret'.op = "choose_next"
           /\ rret'.strategy \in {"best_ctr", "lowest_cpc"})
       => /\ creatives' = creatives
          /\ round_robin_index' = round_robin_index
          /\ rrCalls' = rrCalls
          /\ creatives # << >> =>
                Choices(creatives', round_robin_index', "round_robin")
                    = Choices(creatives, round_robin_index, "round_robin")]_vars

\* A best_ctr choice has returned after two round-robin calls over three
\* creatives, and the cursor stands on the third.
C34_Witness ==
    /\ rret.op = "choose_next" /\ rret.kind = "ok"
    /\ rret.strategy = "best_ctr"
    /\ Len(creatives) = 3
    /\ rrCalls = 2
    /\ round_robin_index = 2

\* C35: a remove_creative call that removes something and leaves the cursor
\* below the new length leaves the cursor's value as it was, also when a
\* removed creative sat before the cursor, and the next round-robin choice
\* is the creative at that index of the shortened collection.
C35_CursorNotShifted ==
    [][(/\ rret'.op = "remove_creative" /\ rret'.val
        /\ round_robin_index < Len(creatives'))
       => /\ round_robin_index' = round_robin_index
          /\ Choices(creatives', round_robin_index', "round_robin")
                = {creatives'[round_robin_index + 1]}]_vars

\* The first of three creatives was removed while the cursor stood on the
\* second: the cursor is still 1 and now stands on what was the third.
C35_Witness ==
    /\ rret.op = "remove_creative" /\ rret.val
    /\ rret.initial_length = 3
    /\ rret.at = {0}
    /\ rret.index = 1
    /\ Len(creatives) = 2
    /\ round_robin_index = 1

\* C36: when remove_creative has removed the last creatives, the cursor is
\* 0; on the empty collection choose_next fails with ValueError for every
\* strategy argument and changes nothing, get_rotation_stats returns zero
\* totals and averages with empty best_performing and worst_performing, and
\* an add_creative that returns makes the added creative the collection's
\* only element and the next round-robin choice.
C36_EmptiedRotator ==
    [][/\ (rret'.op = "remove_creative" /\ rret'.val /\ creatives' = << >>)
            => round_robin_index' = 0
       /\ (creatives = << >> /\ rret'.op = "choose_next")
            => /\ rret'.kind = "ValueError"
               /\ creatives' = creatives
               /\ round_robin_index' = round_robin_index
       /\ (creatives = << >> /\ rret'.op = "get_rotation_stats")
            => /\ rret'.kind = "ok"
               /\ rret'.val.total_creatives = 0
               /\ rret'.val.total_impressions = 0
               /\ rret'.val.total_clicks = 0
               /\ rret'.val.total_spend = 0
               /\ rret'.val.average_ctr = 0
               /\ rret'.val.average_cpc = 0
               /\ DOMAIN rret'.val.best_performing = {}
               /\ DOMAIN rret'.val.worst_performing = {}
               /\ creatives' = creatives
               /\ round_robin_index' = round_robin_index
       /\ (creatives = << >> /\ rret'.op = "add_creative"
                             /\ rret'.kind = "ok")
            => /\ Len(creatives') = 1
               /\ creatives'[1].ad_id = rret'.creative.ad_id
               /\ Choices(creatives', round_robin_index', "round_robin")
                    = {creatives'[1]}]_vars

\* A removal took the last two creatives at once while the cursor stood on
\* the second, and the cursor is back at 0.
C36_Witness ==
    /\ rret.op = "remove_creative" /\ rret.val
    /\ rret.at = {0, 1}
    /\ rret.index = 1
    /\ creatives = << >>
    /\ round_robin_index = 0

\* C37: a constructor call that raises ValueError leaves every dict of the
\* list it was given as it was supplied, with no ctr or cpc added; an
\* add_creative call that raises ValueError leaves the dict it was given, the
\* collection and the cursor as they were.
C37_ValidationFirst ==
    [][/\ (rret'.op = "init" /\ rret'.kind = "ValueError")
            => /\ Len(creatives') = Len(rret'.input)
               /\ \A i \in 1..Len(rret'.input) :
                     /\ DOMAIN creatives'[i] = DOMAIN rret'.input[i]
                     /\ creatives'[i] = rret'.input[i]
       /\ (rret'.op = "add_creative" /\ rret'.kind = "ValueError")
            => /\ rret'.left = rret'.creative
               /\ creatives' = creatives
               /\ round_robin_index' = round_robin_index]_vars

\* The constructor refused a list whose first dict has every required field
\* and no metrics and whose second dict lacks a field: the first still has
\* neither ctr nor cpc.
C37_Witness ==
    /\ rstate = "failed"
    /\ rret.op = "init" /\ rret.kind = "ValueError"
    /\ Len(rret.input) = 2
    /\ DOMAIN rret.input[1] =
          {"ad_id", "ad_name", "impressions", "clicks", "spend"}
    /\ \E f \in {"ad_id", "ad_name", "impressions", "clicks", "spend"} :
          f \notin DOMAIN rret.input[2]
    /\ "ctr" \notin DOMAIN creatives[1]
    /\ "cpc" \notin DOMAIN creatives[1]

\* The items of record r other than its ads are client c's platform name and
\* the values of campaign as the client returned it.
CarriesCampaign(r, c, campaign) ==
    /\ DOMAIN r = {"platform", "campaign_id", "name", "impressions", "clicks",
                   "spend", "ads"}
    /\ r.platform = clients[c].platform_name
    /\ r.campaign_id = campaign.campaign_id
    /\ r.name = campaign.name
    /\ r.impressions = campaign.impressions
    /\ r.clicks = campaign.clicks
    /\ r.spend = campaign.spend

\* C38: in both modes, every record of the list a client's task returned and
\* every record of the result carries the platform name of a client whose
\* fetch_campaigns returned and the campaign_id, name, impressions, clicks and
\* spend of one of that client's campaigns, unchanged, whether the campaign's
\* fetch_ads returned or raised.
C38_CampaignFieldsKept ==
    /\ \A c \in 1..NumClients :
          \A i \in DOMAIN task[c].data :
             /\ ~ClientFails(c)
             /\ i \in DOMAIN clients[c].campaigns
             /\ CarriesCampaign(task[c].data[i], c, clients[c].campaigns[i])
    /\ \A i \in DOMAIN all_data :
          \E c \in 1..NumClients :
             /\ Merged(c) /\ ~ClientFails(c)
             /\ \E k \in DOMAIN clients[c].campaigns :
                   /\ CarriesCampaign(all_data[i], c, clients[c].campaigns[k])
                   /\ AdsFail(c, k) => all_data[i].ads = << >>

\* A sequential call over two clients of different platforms has returned;
\* fetch_ads failed for the first client's first campaign; the first record
\* is that campaign's under the first platform, with no ads, and the last
\* record is under the second platform, with ads.
C38_Witness ==
    /\ AggReturned /\ ~parallel
    /\ NumClients = 2
    /\ clients[1].platform_name # clients[2].platform_name
    /\ ~ClientFails(1) /\ ~ClientFails(2)
    /\ AdsFail(1, 1)
    /\ all_data # << >>
    /\ all_data[1].platform = clients[1].platform_name
    /\ all_data[1].spend = clients[1].campaigns[1].spend
    /\ all_data[1].ads = << >>
    /\ all_data[Len(all_data)].platform = clients[2].platform_name
    /\ all_data[Len(all_data)].ads # << >>

\* C39: simulate_rotation with iterations <= 0 returns an empty sequence
\* whatever the strategy argument, an unknown one included, and leaves the
\* cursor at 0 when the argument is round_robin and where it was otherwise;
\* with iterations >= 1 and an unknown strategy it raises ValueError and
\* leaves the cursor where it was.  The collection is unchanged in each case.
C39_SimulateEdgeCases ==
    [][rret'.op = "simulate_rotation" =>
        /\ rret'.n <= 0 =>
              /\ rret'.kind = "ok"
              /\ rret'.val = << >>
              /\ creatives' = creatives
              /\ rret'.strategy = "round_robin" => round_robin_index' = 0
              /\ rret'.strategy # "round_robin" =>
                    round_robin_index' = round_robin_index
        /\ (rret'.n >= 1 /\ rret'.strategy \notin Strategies) =>
              /\ rret'.kind = "ValueError"
              /\ creatives' = creatives
              /\ round_robin_index' = round_robin_index]_vars

\* A simulation of no iterations with an unknown strategy has returned an
\* empty sequence, the cursor standing on the second of three creatives.
C39_Witness ==
    /\ rret.op = "simulate_rotation" /\ rret.kind = "ok"
    /\ rret.n <= 0
    /\ rret.strategy \notin Strategies
    /\ rret.val = << >>
    /\ Len(creatives) = 3
    /\ round_robin_index = 1

====
